---- MODULE Spec2Model ----
(***************************************************************************)
(* Model of the SudoStake NEAR agent tools (agent/src): the liquidity      *)
(* request lifecycle (request_liquidity, accept_liquidity_request,         *)
(* repay_loan), the NEAR amount tools (delegate, undelegate,               *)
(* withdraw_balance, claim_unstaked_balance, transfer_near_to_vault),      *)
(* mint_vault, the views (vault_state, vault_delegation_summary,           *)
(* view_vault_status_with_validator), the token registry and the decimal   *)
(* amount conversions they rely on.                                        *)
(*                                                                         *)
(* Numbers that exceed machine integers (yoctoNEAR amounts have up to 28   *)
(* decimal digits) are kept as sequences of decimal digits, and Python's   *)
(* decimal.Decimal is modelled with its coefficient, exponent and the      *)
(* 28-digit default context the tools run under.                           *)
(***************************************************************************)
EXTENDS Integers, Sequences, FiniteSets, TLC

(***************************************************************************)
(* Digit sequences                                                         *)
(***************************************************************************)

Zeros(n) == [i \in 1..n |-> 0]

Rep(d, n) == [i \in 1..n |-> d]

IsZeroSeq(s) == \A i \in 1..Len(s) : s[i] = 0

RECURSIVE StripLeadingZeros(_)
StripLeadingZeros(s) ==
    IF Len(s) <= 1 THEN (IF Len(s) = 0 THEN <<0>> ELSE s)
    ELSE IF s[1] = 0 THEN StripLeadingZeros(Tail(s))
    ELSE s

RECURSIVE IncSeq(_)
IncSeq(s) ==
    IF Len(s) = 0 THEN <<1>>
    ELSE IF s[Len(s)] < 9
         THEN SubSeq(s, 1, Len(s) - 1) \o <<s[Len(s)] + 1>>
         ELSE IncSeq(SubSeq(s, 1, Len(s) - 1)) \o <<0>>

\* Drop the last k >= 1 digits of coef, rounding the rest half-to-even
\* (decimal.ROUND_HALF_EVEN, the rounding of the default context).
RoundHalfEvenDrop(coef, k) ==
    LET padded  == IF k >= Len(coef) THEN Zeros(k - Len(coef) + 1) \o coef ELSE coef
        n       == Len(padded)
        kept    == SubSeq(padded, 1, n - k)
        dropped == SubSeq(padded, n - k + 1, n)
        rest    == SubSeq(dropped, 2, Len(dropped))
        up      == \/ dropped[1] > 5
                   \/ /\ dropped[1] = 5
                      /\ (~IsZeroSeq(rest) \/ kept[Len(kept)] % 2 = 1)
    IN StripLeadingZeros(IF up THEN IncSeq(kept) ELSE kept)

(***************************************************************************)
(* Text: a str is a sequence of one-character strings                      *)
(***************************************************************************)

IsSpace(c) == c \in {" ", "\t", "\n"}

\* str.lower(), letter by letter
LowerChar(c) ==
    CASE c = "U" -> "u" [] c = "S" -> "s" [] c = "D" -> "d" [] c = "C" -> "c"
      [] c = "O" -> "o" [] c = "L" -> "l" [] c = "T" -> "t" [] c = "E" -> "e"
      [] c = "N" -> "n" [] c = "M" -> "m" [] c = "A" -> "a" [] c = "I" -> "i"
      [] OTHER -> c

Lower(s) == [i \in 1..Len(s) |-> LowerChar(s[i])]

RECURSIVE LStrip(_)
LStrip(s) == IF Len(s) > 0 /\ IsSpace(s[1]) THEN LStrip(Tail(s)) ELSE s

RECURSIVE RStrip(_)
RStrip(s) ==
    IF Len(s) > 0 /\ IsSpace(s[Len(s)]) THEN RStrip(SubSeq(s, 1, Len(s) - 1)) ELSE s

\* str.strip()
Strip(s) == RStrip(LStrip(s))

(***************************************************************************)
(* decimal.Decimal under the default context                               *)
(***************************************************************************)

\* decimal.getcontext().prec, never changed by the tools
Prec == 28

Fin(neg, coef, exp) == [kind |-> "fin", neg |-> neg, coef |-> coef, exp |-> exp]
NaN == [kind |-> "nan", neg |-> FALSE, coef |-> <<0>>, exp |-> 0]
Inf(neg) == [kind |-> "inf", neg |-> neg, coef |-> <<0>>, exp |-> 0]
InvalidOperation == [kind |-> "InvalidOperation", neg |-> FALSE, coef |-> <<0>>, exp |-> 0]
ValueError == [kind |-> "ValueError", neg |-> FALSE, coef |-> <<0>>, exp |-> 0]

IsError(x) == x.kind \in {"InvalidOperation", "ValueError"}

\* Rounding of an arithmetic result to the context precision.
DecFix(d) ==
    IF d.kind # "fin" \/ Len(d.coef) <= Prec THEN d
    ELSE LET k == Len(d.coef) - Prec
             c == RoundHalfEvenDrop(d.coef, k)
         IN IF Len(c) > Prec
            THEN Fin(d.neg, SubSeq(c, 1, Prec), d.exp + k + 1)
            ELSE Fin(d.neg, c, d.exp + k)

\* Decimal(int): an integer converts exactly.
DecFromInt(i) == Fin(i.neg, StripLeadingZeros(i.digits), 0)

\* the characters of the digits 0..9
DigitChar == <<"0", "1", "2", "3", "4", "5", "6", "7", "8", "9">>

IsDigitChar(c) == \E d \in 1..10 : DigitChar[d] = c

DigitOf(c) == (CHOOSE d \in 1..10 : DigitChar[d] = c) - 1

AllDigits(s) == \A i \in 1..Len(s) : IsDigitChar(s[i])

DigitsOf(s) == [i \in 1..Len(s) |-> DigitOf(s[i])]

\* the value of a short digit sequence as an integer (exponents only)
RECURSIVE SmallInt(_)
SmallInt(ds) ==
    IF Len(ds) = 0 THEN 0 ELSE 10 * SmallInt(SubSeq(ds, 1, Len(ds) - 1)) + ds[Len(ds)]

\* the position of the first character of s that lies in set cs, 0 if none
FirstOf(s, cs) ==
    LET hits == {i \in 1..Len(s) : s[i] \in cs}
    IN IF hits = {} THEN 0 ELSE CHOOSE i \in hits : \A j \in hits : i <= j

\* Decimal(str): [sign] digits [. digits] [e [sign] digits], or NaN, or
\* Infinity, surrounding whitespace ignored; the value converts exactly and
\* any other text raises InvalidOperation (ConversionSyntax).
DecFromStr(str) ==
    LET s      == LStrip(RStrip(str))
        signed == Len(s) > 0 /\ s[1] \in {"-", "+"}
        neg    == Len(s) > 0 /\ s[1] = "-"
        body   == IF signed THEN Tail(s) ELSE s
        word   == [i \in 1..Len(body) |-> LowerChar(body[i])]
        epos   == FirstOf(body, {"e", "E"})
        mant   == IF epos = 0 THEN body ELSE SubSeq(body, 1, epos - 1)
        etxt   == IF epos = 0 THEN <<>> ELSE SubSeq(body, epos + 1, Len(body))
        esign  == Len(etxt) > 0 /\ etxt[1] \in {"-", "+"}
        edig   == IF esign THEN Tail(etxt) ELSE etxt
        dot    == FirstOf(mant, {"."})
        ipart  == IF dot = 0 THEN mant ELSE SubSeq(mant, 1, dot - 1)
        fpart  == IF dot = 0 THEN <<>> ELSE SubSeq(mant, dot + 1, Len(mant))
        wellformed ==
            /\ AllDigits(ipart) /\ AllDigits(fpart)
            /\ Len(ipart) + Len(fpart) > 0
            /\ (epos # 0 => Len(edig) > 0 /\ AllDigits(edig))
        e      == IF epos = 0 THEN 0
                  ELSE IF etxt[1] = "-" THEN - SmallInt(DigitsOf(edig))
                  ELSE SmallInt(DigitsOf(edig))
    IN IF word = <<"n", "a", "n">> THEN NaN
       ELSE IF word \in { <<"i", "n", "f">>, <<"i", "n", "f", "i", "n", "i", "t", "y">> }
            THEN Inf(neg)
       ELSE IF ~wellformed THEN InvalidOperation
       ELSE Fin(neg, StripLeadingZeros(DigitsOf(ipart \o fpart)), e - Len(fpart))

\* 10 ** n as the Decimal the int operand is converted to.
PowTen(n) == Fin(FALSE, <<1>> \o Zeros(n), 0)

\* YOCTO_FACTOR = Decimal("1e24")
YOCTO_FACTOR == Fin(FALSE, <<1>>, 24)

\* a * b for a multiplier b that is a power of ten.
DecMul(a, b) ==
    CASE IsError(a)      -> a
      [] a.kind = "nan"  -> NaN
      [] a.kind = "inf"  -> Inf(a.neg)
      [] OTHER -> DecFix(Fin(a.neg,
                             StripLeadingZeros(a.coef \o Zeros(Len(b.coef) - 1)),
                             a.exp + b.exp))

\* a / b for a divisor b that is a power of ten.
DecDiv(a, b) ==
    CASE IsError(a)      -> a
      [] a.kind = "nan"  -> NaN
      [] a.kind = "inf"  -> Inf(a.neg)
      [] OTHER -> DecFix(Fin(a.neg, a.coef, a.exp - b.exp - (Len(b.coef) - 1)))

\* a.quantize(Decimal("1")): the value at exponent 0, or InvalidOperation
\* when it is infinite or needs more than Prec digits.
DecQuantize1(a) ==
    CASE IsError(a)      -> a
      [] a.kind = "nan"  -> NaN
      [] a.kind = "inf"  -> InvalidOperation
      [] OTHER ->
          LET c == IF a.exp >= 0
                   THEN StripLeadingZeros(a.coef \o Zeros(a.exp))
                   ELSE RoundHalfEvenDrop(a.coef, - a.exp)
          IN IF Len(c) > Prec THEN InvalidOperation ELSE Fin(a.neg, c, 0)

\* int(d) of a quantized decimal; int(NaN) raises ValueError.
DecToInt(a) ==
    CASE IsError(a)      -> a
      [] a.kind = "nan"  -> ValueError
      [] a.kind = "inf"  -> ValueError
      [] OTHER -> [kind |-> "int", neg |-> a.neg /\ ~IsZeroSeq(a.coef), digits |-> a.coef]

\* str(int)
IntToStr(i) ==
    (IF i.neg THEN <<"-">> ELSE <<>>) \o [k \in 1..Len(i.digits) |-> DigitChar[i.digits[k] + 1]]

\* d.normalize(): trailing zeros of the coefficient go to the exponent.
RECURSIVE DecNormalize(_)
DecNormalize(a) ==
    IF a.kind # "fin" THEN a
    ELSE IF IsZeroSeq(a.coef) THEN Fin(a.neg, <<0>>, 0)
    ELSE IF a.coef[Len(a.coef)] = 0
         THEN DecNormalize(Fin(a.neg, SubSeq(a.coef, 1, Len(a.coef) - 1), a.exp + 1))
         ELSE a

\* int((Decimal(x) * factor).quantize(Decimal("1")))
ToMinorUnits(dec, factor) == DecToInt(DecQuantize1(DecMul(dec, factor)))

\* (Decimal(minor) / Decimal(10 ** decimals)).quantize(Decimal(1))
ToHumanQuantized(minor, decimals) ==
    DecQuantize1(DecDiv(DecFromStr(minor), PowTen(decimals)))

\* Decimal(minor) / YOCTO_FACTOR, shown through normalize()
ToHumanNormalized(minor) == DecNormalize(DecDiv(DecFromStr(minor), YOCTO_FACTOR))

(***************************************************************************)
(* token_registry.py                                                       *)
(***************************************************************************)

testnet == <<"t", "e", "s", "t", "n", "e", "t">>
mainnet == <<"m", "a", "i", "n", "n", "e", "t">>

usdc_aliases == << <<"$">>, <<"u", "s", "d">>, <<"u", "s", "d", "c">> >>

\* TOKEN_REGISTRY[network] as the sequence registry.values() iterates over
TOKEN_REGISTRY(network) ==
    CASE network = testnet ->
           << [symbol |-> "USDC", contract |-> "usdc.tkn.primitives.testnet",
               decimals |-> 6, aliases |-> usdc_aliases] >>
      [] network = mainnet ->
           << [symbol |-> "USDC",
               contract |-> "17208628f84f5d6ad33f0da3bbbeb27ffcb398eac501a31bd6ad2011e36133a1",
               decimals |-> 6, aliases |-> usdc_aliases] >>
      [] OTHER -> <<>>

RegisteredNetworks == {testnet, mainnet}

Ok(v) == [ok |-> TRUE, value |-> v, error |-> ""]
Raise(e) == [ok |-> FALSE, value |-> <<>>, error |-> e]

\* the first entry of the registry satisfying a test, as the for-loops return it
FirstMatch(registry, Test(_)) ==
    LET hits == {i \in 1..Len(registry) : Test(registry[i])}
    IN IF hits = {} THEN 0 ELSE CHOOSE i \in hits : \A j \in hits : i <= j

\* A slip of the lookup below: the key is lowered but not trimmed.
get_token_metadata_untrimmed(env_network, token_key) ==
    LET network == Lower(env_network)
        registry == TOKEN_REGISTRY(network)
        normalized_key == Lower(token_key)
        HasAlias(metadata) ==
            \E k \in 1..Len(metadata.aliases) : Lower(metadata.aliases[k]) = normalized_key
        hit == FirstMatch(registry, HasAlias)
    IN IF network \notin RegisteredNetworks THEN Raise("Unsupported network")
       ELSE IF hit = 0 THEN Raise("Unsupported token")
       ELSE Ok(registry[hit])

get_token_metadata(env_network, token_key) ==
    LET network == Lower(env_network)
        registry == TOKEN_REGISTRY(network)
        normalized_key == Lower(Strip(token_key))
        HasAlias(metadata) ==
            \E k \in 1..Len(metadata.aliases) : Lower(metadata.aliases[k]) = normalized_key
        hit == FirstMatch(registry, HasAlias)
    IN IF network \notin RegisteredNetworks THEN Raise("Unsupported network")
       ELSE IF hit = 0 THEN Raise("Unsupported token")
       ELSE Ok(registry[hit])

\* A slip of the lookup below: every network's table is searched.
get_token_metadata_by_contract_any_network(env_network, contract_id) ==
    LET registry == TOKEN_REGISTRY(testnet) \o TOKEN_REGISTRY(mainnet)
        HasContract(meta) == meta.contract = contract_id
        hit == FirstMatch(registry, HasContract)
    IN IF hit = 0 THEN Raise("No token metadata found for contract")
       ELSE Ok(registry[hit])

get_token_metadata_by_contract(env_network, contract_id) ==
    LET network == Lower(env_network)
        registry == TOKEN_REGISTRY(network)
        HasContract(meta) == meta.contract = contract_id
        hit == FirstMatch(registry, HasContract)
    IN IF network \notin RegisteredNetworks THEN Raise("Unsupported network")
       ELSE IF hit = 0 THEN Raise("No token metadata found for contract")
       ELSE Ok(registry[hit])

(***************************************************************************)
(* helpers.py                                                              *)
(***************************************************************************)

None == <<>>

\* dict.get(key, default)
Get(d, k, default) == IF k \in DOMAIN d THEN d[k] ELSE default

\* get_explorer_url(): raises when NEAR_NETWORK is neither mainnet nor testnet
get_explorer_url(env_network) ==
    IF env_network = mainnet THEN Ok("https://explorer.near.org")
    ELSE IF env_network = testnet THEN Ok("https://explorer.testnet.near.org")
    ELSE Raise("Unsupported NEAR_NETWORK")

\* A slip of the lookup below: ExecutionError is read from "kind", one level
\* above FunctionCallError.
get_failure_message_read_from_kind(status) ==
    LET failure == Get(status, "Failure", None)
    IN IF DOMAIN failure # {}
       THEN LET action_err == Get(failure, "ActionError", <<>>)
                kind       == Get(action_err, "kind", <<>>)
            IN IF "ExecutionError" \in DOMAIN kind
               THEN <<kind["ExecutionError"]>>
               ELSE None
       ELSE None

\* The ExecutionError of a failed status as <<message>>, None when the path
\* Failure/ActionError/kind/FunctionCallError/ExecutionError is not there.
get_failure_message_from_tx_status(status) ==
    LET failure == Get(status, "Failure", None)
    IN IF DOMAIN failure # {}
       THEN LET action_err == Get(failure, "ActionError", <<>>)
                kind       == Get(action_err, "kind", <<>>)
                func_err   == Get(kind, "FunctionCallError", <<>>)
            IN IF "ExecutionError" \in DOMAIN func_err
               THEN <<func_err["ExecutionError"]>>
               ELSE None
       ELSE None

\* "if failure:" on the value above
Truthy(failure) == failure # None /\ failure[1] # <<>>

\* json.dumps(text, indent=2) of a str: the text between quotes, with quote,
\* backslash and newline escaped (the messages here are ASCII)
RECURSIVE json_escape(_)
json_escape(text) ==
    IF text = <<>> THEN <<>>
    ELSE (CASE text[1] = "\"" -> <<"\\", "\"">>
            [] text[1] = "\\" -> <<"\\", "\\">>
            [] text[1] = "\n" -> <<"\\", "n">>
            [] OTHER -> <<text[1]>>) \o json_escape(Tail(text))

json_dumps_str(text) == <<"\"">> \o json_escape(text) \o <<"\"">>

\* the sentence of the soft-failure reply of request_liquidity
insufficient_stake_reply ==
    <<"Y", "o", "u", " ", "m", "a", "y", " ", "n", "o", "t", " ", "h", "a",
      "v", "e", " ", "e", "n", "o", "u", "g", "h", " ", "s", "t", "a", "k",
      "e", "d", " ", "N", "E", "A", "R", " ", "t", "o", " ", "c", "o", "v",
      "e", "r", " ", "t", "h", "e", " ", "c", "o", "l", "l", "a", "t", "e",
      "r", "a", "l", ".">>

\* the sentence of the soft-failure reply of repay_loan
repay_loan_failed_reply ==
    <<"F", "u", "n", "d", "s", " ", "c", "o", "u", "l", "d", " ", "n", "o",
      "t", " ", "b", "e", " ", "t", "r", "a", "n", "s", "f", "e", "r", "r",
      "e", "d", " ", "t", "o", " ", "t", "h", "e", " ", "l", "e", "n", "d",
      "e", "r", ".">>

\* log_contains_event(logs, name): some log line carries the event name
log_contains_event(logs, name) == \E i \in 1..Len(logs) : logs[i].event = name

(***************************************************************************)
(* State                                                                   *)
(***************************************************************************)

VARIABLES
    signing_mode,   \* helpers._SIGNING_MODE: "headless" or "None"
    NEAR_NETWORK,   \* os.environ["NEAR_NETWORK"]
    pc,             \* where the running tool stands: "idle", "<tool>_..." or "done"
    op,             \* the running tool, its arguments and local variables
    replies,        \* env.add_reply(...) of the running tool, in order
    calls,          \* near.view / near.call / near.send_money issued, in order
    index_calls,    \* index_vault_to_firebase(vault) issued, in order
    warnings,       \* logger.warning / logger.error records
    tx,             \* the TransactionResult near.call returned, None before
    rt              \* the amount conversions applied to one amount, step by step

vars == <<signing_mode, NEAR_NETWORK, pc, op, replies, calls, index_calls, warnings, tx, rt>>

(***************************************************************************)
(* Inputs of the tools and answers of the chain                            *)
(***************************************************************************)

\* the longest list of log lines a transaction returns
MaxLogs == 2

PyInt(neg, digits) == [kind |-> "int", neg |-> neg, digits |-> digits]

VaultIds == {"vault-0.factory.testnet", "vault-1.factory.testnet"}

Validators == {"aurora.pool.f863973.m0"}

\* amount, interest: Python ints
TokenAmounts == { PyInt(FALSE, <<5, 0, 0>>), PyInt(FALSE, <<0>>), PyInt(TRUE, <<3>>) }

Interests == { PyInt(FALSE, <<5, 0>>) }

\* collateral in NEAR: Python ints
Collaterals == { PyInt(FALSE, <<1, 0, 0>>), PyInt(FALSE, <<1, 0, 0, 0, 0>>) }

\* duration in days
Durations == {0, 30}

Denoms == { <<"u", "s", "d", "c">>, <<" ", "U", "S", "D", "C", " ">>, <<"$">>,
            <<"s", "o", "l">> }

\* amount strings of delegate, undelegate, withdraw_balance, transfer_near_to_vault
yocto_prefix == <<"0", ".">> \o Rep("0", 23)

NearAmounts ==
    { <<"5">>, <<"1", ".", "5">>, <<"0">>, <<"-", "5">>,
      <<"N", "a", "N">>, <<"I", "n", "f", "i", "n", "i", "t", "y">>,
      <<"a", "b", "c">>,
      <<"1", "0", "0", "0", "0">>,
      Rep("9", 4) \o <<".">> \o Rep("9", 24),
      yocto_prefix \o <<"0", "5">>,
      yocto_prefix \o <<"1", "5">>,
      yocto_prefix \o <<"2", "5">>,
      yocto_prefix \o <<"2", "6">>,
      yocto_prefix \o <<"1", "4">> \o Rep("9", 26) \o <<"6">> }

ToAddresses == {"", "bob.testnet"}

\* ExecutionError messages of a panicked contract, as text: "Loan already
\* repaid" and "missing field "amount"" (a message that holds quotes)
ExecutionErrors ==
    { <<"L", "o", "a", "n", " ", "a", "l", "r", "e", "a", "d", "y", " ", "r",
        "e", "p", "a", "i", "d">>,
      <<"m", "i", "s", "s", "i", "n", "g", " ", "f", "i", "e", "l", "d", " ",
        "\"", "a", "m", "o", "u", "n", "t", "\"">> }

SuccessStatus == [SuccessValue |-> ""]

PanicStatus(msg) ==
    [Failure |-> [ActionError |-> [kind |-> [FunctionCallError |-> [ExecutionError |-> msg]]]]]

\* a failed action that is no function-call error
OtherFailureStatus ==
    [Failure |-> [ActionError |-> [kind |-> [AccountDoesNotExist |-> [account_id |-> "x"]]]]]

Statuses ==
    {SuccessStatus, OtherFailureStatus, PanicStatus(<<>>)}
        \cup {PanicStatus(m) : m \in ExecutionErrors}

LogLines ==
    { [event |-> "liquidity_request_failed_insufficient_stake"],
      [event |-> "repay_loan_failed"],
      [event |-> "other"] }

SeqsUpTo(S, n) == UNION {[1..k -> S] : k \in 0..n}

\* what run_coroutine(near.call(...)) gives: a TransactionResult or an exception
CallOutcomes ==
    { [raised |-> TRUE, error |-> "network dropped", status |-> <<>>, logs |-> <<>>,
       hash |-> ""] }
        \cup { [raised |-> FALSE, error |-> "", status |-> st, logs |-> lg, hash |-> "tx123"] :
               st \in Statuses, lg \in SeqsUpTo(LogLines, MaxLogs) }

\* a token contract that is in no table of the registry
UnlistedToken(network) ==
    IF network = mainnet THEN "usdt.tether-token.near" ELSE "usdc.testnet"

\* the liquidity_request records a vault state may hold on a network
LiquidityRequests(network) ==
    { [token |-> TOKEN_REGISTRY(network)[1].contract,
       amount |-> <<"5", "0", "0">> \o Rep("0", 6),
       interest |-> <<"5", "0">> \o Rep("0", 6),
       collateral |-> <<"1", "0", "0">> \o Rep("0", 24),
       duration |-> 2592000, created_at |-> "1710000000000000000"],
      [token |-> UnlistedToken(network),
       amount |-> <<"1", "5">> \o Rep("0", 5),
       interest |-> <<"2", "5">> \o Rep("0", 5),
       collateral |-> <<"5">> \o Rep("0", 24),
       duration |-> 86500, created_at |-> "1710000000000000000"] }

AcceptedOffers == { [lender |-> "bob.testnet", accepted_at |-> "1710001000000000000"] }

\* what run_coroutine(near.view(vault, "get_vault_state", {})) gives: an
\* exception, a response without result, or the state of the vault
VaultStateOutcomes(network) ==
    { [raised |-> TRUE, error |-> "rpc unreachable", result |-> None],
      [raised |-> FALSE, error |-> "", result |-> None] }
        \cup { [raised |-> FALSE, error |-> "",
                result |-> [liquidity_request |-> lr, accepted_offer |-> ao]] :
               lr \in LiquidityRequests(network) \cup {None}, ao \in AcceptedOffers \cup {None} }

\* what index_vault_to_firebase does: returns (FALSE) or raises (TRUE)
IndexOutcomes == BOOLEAN

(***************************************************************************)
(* Replies                                                                 *)
(***************************************************************************)

Reply(tool, class, vault, detail) ==
    [tool |-> tool, class |-> class, vault |-> vault, detail |-> detail]

Finish(reply) ==
    /\ replies' = Append(replies, reply)
    /\ pc' = "done"

Init ==
    /\ signing_mode \in {"headless", "None"}
    /\ NEAR_NETWORK \in {testnet, mainnet}
    /\ pc = "idle"
    /\ op = [tool |-> "none"]
    /\ replies = <<>>
    /\ calls = <<>>
    /\ index_calls = <<>>
    /\ warnings = <<>>
    /\ tx = None
    /\ rt = [stage |-> "off"]

\* the tool has returned; the agent is ready for the next tool call
Return ==
    /\ pc = "done"
    /\ pc' = "idle"
    /\ op' = [tool |-> "none"]
    /\ replies' = <<>>
    /\ calls' = <<>>
    /\ index_calls' = <<>>
    /\ warnings' = <<>>
    /\ tx' = None
    /\ UNCHANGED <<rt, signing_mode, NEAR_NETWORK>>

(***************************************************************************)
(* tools/liquidity_request.py: request_liquidity                           *)
(***************************************************************************)

\* from the entry to the near.call of request_liquidity
request_liquidity(vault_id, amount, denom, interest, duration, collateral) ==
    /\ pc = "idle"
    /\ LET token == get_token_metadata(NEAR_NETWORK, Lower(Strip(denom)))
           token_meta == token.value
           amount_scaled == ToMinorUnits(DecFromInt(amount), PowTen(token_meta.decimals))
           interest_scaled == ToMinorUnits(DecFromInt(interest), PowTen(token_meta.decimals))
           collateral_yocto == ToMinorUnits(DecFromInt(collateral), YOCTO_FACTOR)
           duration_secs == duration * 86400
           args == [token |-> token_meta.contract,
                    amount |-> IntToStr(amount_scaled),
                    interest |-> IntToStr(interest_scaled),
                    collateral |-> IntToStr(collateral_yocto),
                    duration |-> duration_secs]
           me == [tool |-> "request_liquidity", vault_id |-> vault_id, amount |-> amount,
                  denom |-> denom, interest |-> interest, duration |-> duration,
                  collateral |-> collateral]
       IN /\ op' = me
          /\ IF signing_mode # "headless"
             THEN /\ Finish(Reply("request_liquidity", "signing_warning", vault_id, ""))
                  /\ UNCHANGED calls
             ELSE IF ~token.ok
             THEN /\ Finish(Reply("request_liquidity", "error", vault_id, token.error))
                  /\ UNCHANGED calls
             ELSE IF IsError(amount_scaled)
             THEN /\ Finish(Reply("request_liquidity", "error", vault_id, amount_scaled.kind))
                  /\ UNCHANGED calls
             ELSE IF IsError(interest_scaled)
             THEN /\ Finish(Reply("request_liquidity", "error", vault_id, interest_scaled.kind))
                  /\ UNCHANGED calls
             ELSE IF IsError(collateral_yocto)
             THEN /\ Finish(Reply("request_liquidity", "error", vault_id, collateral_yocto.kind))
                  /\ UNCHANGED calls
             ELSE /\ calls' = Append(calls, [fn |-> "call", contract_id |-> vault_id,
                                             method_name |-> "request_liquidity",
                                             args |-> args])
                  /\ pc' = "request_liquidity_call"
                  /\ UNCHANGED replies
    /\ UNCHANGED <<rt, signing_mode, NEAR_NETWORK, index_calls, warnings, tx>>

\* the checks request_liquidity runs on the returned transaction, in order
request_liquidity_classify(outcome) ==
    IF Truthy(get_failure_message_from_tx_status(outcome.status))
    THEN "contract_panic"
    ELSE IF log_contains_event(outcome.logs, "liquidity_request_failed_insufficient_stake")
    THEN "soft_failure"
    ELSE "success"

\* from the answer of near.call to the indexing call of request_liquidity
request_liquidity_response(outcome) ==
    /\ pc = "request_liquidity_call"
    /\ LET failure == get_failure_message_from_tx_status(outcome.status)
           class == request_liquidity_classify(outcome)
       IN IF outcome.raised
          THEN /\ Finish(Reply("request_liquidity", "error", op.vault_id, outcome.error))
               /\ UNCHANGED <<tx, index_calls>>
          ELSE /\ tx' = outcome
               /\ IF class = "contract_panic"
                  THEN /\ Finish(Reply("request_liquidity", "contract_panic", op.vault_id,
                                       json_dumps_str(failure[1])))
                       /\ UNCHANGED index_calls
                  ELSE IF class = "soft_failure"
                  THEN /\ Finish(Reply("request_liquidity", "soft_failure", op.vault_id,
                                       insufficient_stake_reply))
                       /\ UNCHANGED index_calls
                  ELSE /\ index_calls' = Append(index_calls, op.vault_id)
                       /\ pc' = "request_liquidity_index"
                       /\ UNCHANGED replies
    /\ UNCHANGED <<rt, signing_mode, NEAR_NETWORK, op, calls, warnings>>

\* from the end of the indexing call to the return of request_liquidity
request_liquidity_indexed(index_raised) ==
    /\ pc = "request_liquidity_index"
    /\ warnings' = IF index_raised
                   THEN Append(warnings, "index_vault_to_firebase failed")
                   ELSE warnings
    /\ LET explorer == get_explorer_url(NEAR_NETWORK)
       IN IF ~explorer.ok
          THEN Finish(Reply("request_liquidity", "error", op.vault_id, explorer.error))
          ELSE Finish(Reply("request_liquidity", "success", op.vault_id, tx.hash))
    /\ UNCHANGED <<rt, signing_mode, NEAR_NETWORK, op, calls, index_calls, tx>>

(***************************************************************************)
(* tools/liquidity_request.py: accept_liquidity_request                    *)
(***************************************************************************)

\* json.dumps(payload): the payload as the text that carries it
json_dumps(payload) == [json |-> payload]

\* A slip of the test below: only the request is looked at.
no_active_request_ignoring_offer(req, offer) == req = None

\* "if offer or not req": the vault has no request that can be accepted
no_active_request(req, offer) == offer # None \/ req = None

\* A slip of the payload below: interest is filled from the amount.
accept_msg_payload_interest_from_amount(req) ==
    [action |-> "AcceptLiquidityRequest",
     token |-> req.token,
     amount |-> req.amount,
     interest |-> req.amount,
     collateral |-> req.collateral,
     duration |-> req.duration]

\* msg_payload of the ft_transfer_call
accept_msg_payload(req) ==
    [action |-> "AcceptLiquidityRequest",
     token |-> req.token,
     amount |-> req.amount,
     interest |-> req.interest,
     collateral |-> req.collateral,
     duration |-> req.duration]

\* from the entry to the near.view of accept_liquidity_request
accept_liquidity_request(vault_id) ==
    /\ pc = "idle"
    /\ op' = [tool |-> "accept_liquidity_request", vault_id |-> vault_id]
    /\ calls' = Append(calls, [fn |-> "view", contract_id |-> vault_id,
                               method_name |-> "get_vault_state", args |-> <<>>])
    /\ pc' = "accept_liquidity_request_view"
    /\ UNCHANGED <<rt, signing_mode, NEAR_NETWORK, replies, index_calls, warnings, tx>>

\* from the answer of near.view to the ft_transfer_call
accept_liquidity_request_state(response) ==
    /\ pc = "accept_liquidity_request_view"
    /\ LET vault_id == op.vault_id
           state == response.result
           req == state.liquidity_request
           offer == state.accepted_offer
           msg_payload == accept_msg_payload(req)
           token_contract == req.token
           token_amount == req.amount
       IN IF response.raised
          THEN /\ Finish(Reply("accept_liquidity_request", "error", vault_id, response.error))
               /\ warnings' = Append(warnings, "accept_liquidity_request failed")
               /\ UNCHANGED <<calls, op>>
          ELSE IF response.result = None
          THEN /\ Finish(Reply("accept_liquidity_request", "no_data", vault_id, ""))
               /\ UNCHANGED <<calls, op, warnings>>
          ELSE IF no_active_request(req, offer)
          THEN /\ Finish(Reply("accept_liquidity_request", "no_active_request", vault_id, ""))
               /\ op' = op @@ [state |-> state]
               /\ UNCHANGED <<calls, warnings>>
          ELSE /\ calls' = Append(calls,
                               [fn |-> "call", contract_id |-> token_contract,
                                method_name |-> "ft_transfer_call",
                                args |-> [receiver_id |-> vault_id,
                                          amount |-> token_amount,
                                          msg |-> json_dumps(msg_payload)]])
               /\ op' = op @@ [state |-> state, token_contract |-> token_contract,
                               token_amount |-> token_amount]
               /\ pc' = "accept_liquidity_request_call"
               /\ UNCHANGED <<replies, warnings>>
    /\ UNCHANGED <<rt, signing_mode, NEAR_NETWORK, index_calls, tx>>

\* the checks accept_liquidity_request runs on the returned transaction
accept_liquidity_request_classify(outcome) ==
    IF Truthy(get_failure_message_from_tx_status(outcome.status))
    THEN "contract_panic"
    ELSE "success"

\* from the answer of the ft_transfer_call to the indexing call
accept_liquidity_request_response(outcome) ==
    /\ pc = "accept_liquidity_request_call"
    /\ LET failure == get_failure_message_from_tx_status(outcome.status)
           class == accept_liquidity_request_classify(outcome)
       IN IF outcome.raised
          THEN /\ Finish(Reply("accept_liquidity_request", "error", op.vault_id, outcome.error))
               /\ warnings' = Append(warnings, "accept_liquidity_request failed")
               /\ UNCHANGED <<tx, index_calls>>
          ELSE /\ tx' = outcome
               /\ UNCHANGED warnings
               /\ IF class = "contract_panic"
                  THEN /\ Finish(Reply("accept_liquidity_request", "contract_panic",
                                       op.vault_id, json_dumps_str(failure[1])))
                       /\ UNCHANGED index_calls
                  ELSE /\ index_calls' = Append(index_calls, op.vault_id)
                       /\ pc' = "accept_liquidity_request_index"
                       /\ UNCHANGED replies
    /\ UNCHANGED <<rt, signing_mode, NEAR_NETWORK, op, calls>>

\* from the end of the indexing call to the return of accept_liquidity_request
accept_liquidity_request_indexed(index_raised) ==
    /\ pc = "accept_liquidity_request_index"
    /\ LET token == get_token_metadata_by_contract(NEAR_NETWORK, op.token_contract)
           token_amount == ToHumanQuantized(op.token_amount, token.value.decimals)
           explorer == get_explorer_url(NEAR_NETWORK)
           failed == ~token.ok \/ IsError(token_amount) \/ ~explorer.ok
           e == IF ~token.ok THEN token.error
                ELSE IF IsError(token_amount) THEN token_amount.kind
                ELSE explorer.error
       IN /\ warnings' =
                (IF index_raised
                 THEN Append(warnings, "index_vault_to_firebase failed") ELSE warnings)
                    \o (IF failed THEN <<"accept_liquidity_request failed">> ELSE <<>>)
          /\ IF failed
             THEN Finish(Reply("accept_liquidity_request", "error", op.vault_id, e))
             ELSE Finish(Reply("accept_liquidity_request", "success", op.vault_id, tx.hash))
    /\ UNCHANGED <<rt, signing_mode, NEAR_NETWORK, op, calls, index_calls, tx>>

(***************************************************************************)
(* tools/active_loan.py: repay_loan                                        *)
(***************************************************************************)

\* from the entry to the near.call of repay_loan
repay_loan(vault_id) ==
    /\ pc = "idle"
    /\ op' = [tool |-> "repay_loan", vault_id |-> vault_id]
    /\ calls' = Append(calls, [fn |-> "call", contract_id |-> vault_id,
                               method_name |-> "repay_loan", args |-> <<>>])
    /\ pc' = "repay_loan_call"
    /\ UNCHANGED <<rt, signing_mode, NEAR_NETWORK, replies, index_calls, warnings, tx>>

\* A slip of the checks below: the logs are not looked at.
repay_loan_classify_without_logs(outcome) ==
    IF Truthy(get_failure_message_from_tx_status(outcome.status))
    THEN "contract_panic"
    ELSE "success"

\* the checks repay_loan runs on the returned transaction, in order
repay_loan_classify(outcome) ==
    IF Truthy(get_failure_message_from_tx_status(outcome.status))
    THEN "contract_panic"
    ELSE IF log_contains_event(outcome.logs, "repay_loan_failed")
    THEN "soft_failure"
    ELSE "success"

\* A slip of the step below: a call that raised is submitted once more.
repay_loan_response_resubmitting(outcome) ==
    /\ pc = "repay_loan_call"
    /\ LET failure == get_failure_message_from_tx_status(outcome.status)
           class == repay_loan_classify(outcome)
       IN IF outcome.raised /\ Len(calls) < 2
          THEN /\ calls' = Append(calls, calls[1])
               /\ UNCHANGED <<pc, replies, warnings, tx, index_calls>>
          ELSE IF outcome.raised
          THEN /\ Finish(Reply("repay_loan", "error", op.vault_id, outcome.error))
               /\ warnings' = Append(warnings, "repay_loan failed")
               /\ UNCHANGED <<tx, index_calls, calls>>
          ELSE /\ tx' = outcome
               /\ UNCHANGED <<warnings, calls>>
               /\ IF class = "contract_panic"
                  THEN /\ Finish(Reply("repay_loan", "contract_panic", op.vault_id, json_dumps_str(failure[1])))
                       /\ UNCHANGED index_calls
                  ELSE IF class = "soft_failure"
                  THEN /\ Finish(Reply("repay_loan", "soft_failure", op.vault_id,
                                       repay_loan_failed_reply))
                       /\ UNCHANGED index_calls
                  ELSE /\ index_calls' = Append(index_calls, op.vault_id)
                       /\ pc' = "repay_loan_index"
                       /\ UNCHANGED replies
    /\ UNCHANGED <<rt, signing_mode, NEAR_NETWORK, op>>

\* from the answer of near.call to the indexing call of repay_loan
repay_loan_response(outcome) ==
    /\ pc = "repay_loan_call"
    /\ LET failure == get_failure_message_from_tx_status(outcome.status)
           class == repay_loan_classify(outcome)
       IN IF outcome.raised
          THEN /\ Finish(Reply("repay_loan", "error", op.vault_id, outcome.error))
               /\ warnings' = Append(warnings, "repay_loan failed")
               /\ UNCHANGED <<tx, index_calls>>
          ELSE /\ tx' = outcome
               /\ UNCHANGED warnings
               /\ IF class = "contract_panic"
                  THEN /\ Finish(Reply("repay_loan", "contract_panic", op.vault_id, json_dumps_str(failure[1])))
                       /\ UNCHANGED index_calls
                  ELSE IF class = "soft_failure"
                  THEN /\ Finish(Reply("repay_loan", "soft_failure", op.vault_id,
                                       repay_loan_failed_reply))
                       /\ UNCHANGED index_calls
                  ELSE /\ index_calls' = Append(index_calls, op.vault_id)
                       /\ pc' = "repay_loan_index"
                       /\ UNCHANGED replies
    /\ UNCHANGED <<rt, signing_mode, NEAR_NETWORK, op, calls>>

\* from the end of the indexing call to the return of repay_loan
repay_loan_indexed(index_raised) ==
    /\ pc = "repay_loan_index"
    /\ LET explorer == get_explorer_url(NEAR_NETWORK)
       IN /\ warnings' =
                (IF index_raised
                 THEN Append(warnings, "index_vault_to_firebase failed") ELSE warnings)
                    \o (IF ~explorer.ok THEN <<"repay_loan failed">> ELSE <<>>)
          /\ IF ~explorer.ok
             THEN Finish(Reply("repay_loan", "error", op.vault_id, explorer.error))
             ELSE Finish(Reply("repay_loan", "success", op.vault_id, tx.hash))
    /\ UNCHANGED <<rt, signing_mode, NEAR_NETWORK, op, calls, index_calls, tx>>

(***************************************************************************)
(* tools/delegation.py: delegate, undelegate                               *)
(***************************************************************************)

\* from the entry to the near.call of delegate
delegate(vault_id, validator, amount) ==
    /\ pc = "idle"
    /\ LET yocto == ToMinorUnits(DecFromStr(amount), YOCTO_FACTOR)
       IN /\ op' = [tool |-> "delegate", vault_id |-> vault_id, validator |-> validator, amount |-> amount]
          /\ IF signing_mode # "headless"
             THEN /\ Finish(Reply("delegate", "signing_warning", vault_id, ""))
                  /\ UNCHANGED calls
             ELSE IF IsError(yocto)
             THEN /\ Finish(Reply("delegate", "invalid_amount", vault_id, amount))
                  /\ UNCHANGED calls
             ELSE /\ calls' = Append(calls, [fn |-> "call", contract_id |-> vault_id,
                                             method_name |-> "delegate",
                                             args |-> [validator |-> validator,
                                                       amount |-> IntToStr(yocto)]])
                  /\ pc' = "delegate_call"
                  /\ UNCHANGED replies
    /\ UNCHANGED <<rt, signing_mode, NEAR_NETWORK, index_calls, warnings, tx>>

\* A slip of the step below: the return after the panic reply is missing, so
\* the success reply follows it.
delegate_response_without_return(outcome) ==
    /\ pc = "delegate_call"
    /\ LET failure == get_failure_message_from_tx_status(outcome.status)
           explorer == get_explorer_url(NEAR_NETWORK)
       IN IF outcome.raised
          THEN /\ Finish(Reply("delegate", "error", op.vault_id, outcome.error))
               /\ warnings' = Append(warnings, "delegate error")
               /\ UNCHANGED tx
          ELSE /\ tx' = outcome
               /\ UNCHANGED warnings
               /\ pc' = "done"
               /\ replies' = replies
                     \o (IF Truthy(failure)
                         THEN <<Reply("delegate", "contract_panic", op.vault_id, json_dumps_str(failure[1]))>>
                         ELSE <<>>)
                     \o <<Reply("delegate", "success", op.vault_id, outcome.hash)>>
    /\ UNCHANGED <<rt, signing_mode, NEAR_NETWORK, op, calls, index_calls>>

\* from the answer of near.call to the return of delegate
delegate_response(outcome) ==
    /\ pc = "delegate_call"
    /\ LET failure == get_failure_message_from_tx_status(outcome.status)
           explorer == get_explorer_url(NEAR_NETWORK)
       IN IF outcome.raised
          THEN /\ Finish(Reply("delegate", "error", op.vault_id, outcome.error))
               /\ warnings' = Append(warnings, "delegate error")
               /\ UNCHANGED tx
          ELSE /\ tx' = outcome
               /\ IF Truthy(failure)
                  THEN /\ Finish(Reply("delegate", "contract_panic", op.vault_id, json_dumps_str(failure[1])))
                       /\ UNCHANGED warnings
                  ELSE IF ~explorer.ok
                  THEN /\ Finish(Reply("delegate", "error", op.vault_id, explorer.error))
                       /\ warnings' = Append(warnings, "delegate error")
                  ELSE /\ Finish(Reply("delegate", "success", op.vault_id, outcome.hash))
                       /\ UNCHANGED warnings
    /\ UNCHANGED <<rt, signing_mode, NEAR_NETWORK, op, calls, index_calls>>

\* from the entry to the near.call of undelegate
undelegate(vault_id, validator, amount) ==
    /\ pc = "idle"
    /\ LET yocto == ToMinorUnits(DecFromStr(amount), YOCTO_FACTOR)
       IN /\ op' = [tool |-> "undelegate", vault_id |-> vault_id, validator |-> validator, amount |-> amount]
          /\ IF signing_mode # "headless"
             THEN /\ Finish(Reply("undelegate", "signing_warning", vault_id, ""))
                  /\ UNCHANGED calls
             ELSE IF IsError(yocto)
             THEN /\ Finish(Reply("undelegate", "invalid_amount", vault_id, amount))
                  /\ UNCHANGED calls
             ELSE /\ calls' = Append(calls, [fn |-> "call", contract_id |-> vault_id,
                                             method_name |-> "undelegate",
                                             args |-> [validator |-> validator,
                                                       amount |-> IntToStr(yocto)]])
                  /\ pc' = "undelegate_call"
                  /\ UNCHANGED replies
    /\ UNCHANGED <<rt, signing_mode, NEAR_NETWORK, index_calls, warnings, tx>>

\* from the answer of near.call to the return of undelegate
undelegate_response(outcome) ==
    /\ pc = "undelegate_call"
    /\ LET failure == get_failure_message_from_tx_status(outcome.status)
           explorer == get_explorer_url(NEAR_NETWORK)
       IN IF outcome.raised
          THEN /\ Finish(Reply("undelegate", "error", op.vault_id, outcome.error))
               /\ warnings' = Append(warnings, "undelegate error")
               /\ UNCHANGED tx
          ELSE /\ tx' = outcome
               /\ IF Truthy(failure)
                  THEN /\ Finish(Reply("undelegate", "contract_panic", op.vault_id, json_dumps_str(failure[1])))
                       /\ UNCHANGED warnings
                  ELSE IF ~explorer.ok
                  THEN /\ Finish(Reply("undelegate", "error", op.vault_id, explorer.error))
                       /\ warnings' = Append(warnings, "undelegate error")
                  ELSE /\ Finish(Reply("undelegate", "success", op.vault_id, outcome.hash))
                       /\ UNCHANGED warnings
    /\ UNCHANGED <<rt, signing_mode, NEAR_NETWORK, op, calls, index_calls>>

(***************************************************************************)
(* tools/withdrawal.py: withdraw_balance                                   *)
(***************************************************************************)

\* from the entry to the near.call of withdraw_balance
withdraw_balance(vault_id, amount, to_address) ==
    /\ pc = "idle"
    /\ LET yocto == ToMinorUnits(DecFromStr(amount), YOCTO_FACTOR)
       IN /\ op' = [tool |-> "withdraw_balance", vault_id |-> vault_id, to_address |-> to_address, amount |-> amount]
          /\ IF signing_mode # "headless"
             THEN /\ Finish(Reply("withdraw_balance", "signing_warning", vault_id, ""))
                  /\ UNCHANGED calls
             ELSE IF IsError(yocto)
             THEN /\ Finish(Reply("withdraw_balance", "invalid_amount", vault_id, amount))
                  /\ UNCHANGED calls
             ELSE /\ calls' = Append(calls, [fn |-> "call", contract_id |-> vault_id,
                                             method_name |-> "withdraw_balance",
                                             args |-> IF to_address # ""
                                                     THEN [amount |-> IntToStr(yocto),
                                                           to |-> to_address]
                                                     ELSE [amount |-> IntToStr(yocto)]])
                  /\ pc' = "withdraw_balance_call"
                  /\ UNCHANGED replies
    /\ UNCHANGED <<rt, signing_mode, NEAR_NETWORK, index_calls, warnings, tx>>

\* from the answer of near.call to the return of withdraw_balance
withdraw_balance_response(outcome) ==
    /\ pc = "withdraw_balance_call"
    /\ LET failure == get_failure_message_from_tx_status(outcome.status)
           explorer == get_explorer_url(NEAR_NETWORK)
       IN IF outcome.raised
          THEN /\ Finish(Reply("withdraw_balance", "error", op.vault_id, outcome.error))
               /\ warnings' = Append(warnings, "withdraw_balance error")
               /\ UNCHANGED tx
          ELSE /\ tx' = outcome
               /\ IF Truthy(failure)
                  THEN /\ Finish(Reply("withdraw_balance", "contract_panic", op.vault_id, failure[1]))
                       /\ UNCHANGED warnings
                  ELSE IF ~explorer.ok
                  THEN /\ Finish(Reply("withdraw_balance", "error", op.vault_id, explorer.error))
                       /\ warnings' = Append(warnings, "withdraw_balance error")
                  ELSE /\ Finish(Reply("withdraw_balance", "success", op.vault_id, outcome.hash))
                       /\ UNCHANGED warnings
    /\ UNCHANGED <<rt, signing_mode, NEAR_NETWORK, op, calls, index_calls>>

(***************************************************************************)
(* tools/transfer.py: transfer_near_to_vault                               *)
(***************************************************************************)

\* from the entry to the near.send_money of transfer_near_to_vault
transfer_near_to_vault(vault_id, amount) ==
    /\ pc = "idle"
    /\ LET yocto == ToMinorUnits(DecFromStr(amount), YOCTO_FACTOR)
       IN /\ op' = [tool |-> "transfer_near_to_vault", vault_id |-> vault_id, amount |-> amount]
          /\ IF signing_mode # "headless"
             THEN /\ Finish(Reply("transfer_near_to_vault", "signing_warning", vault_id, ""))
                  /\ UNCHANGED calls
             ELSE IF IsError(yocto)
             THEN /\ Finish(Reply("transfer_near_to_vault", "invalid_amount", vault_id, amount))
                  /\ UNCHANGED calls
             ELSE /\ calls' = Append(calls, [fn |-> "send_money", contract_id |-> vault_id,
                                             method_name |-> "",
                                             args |-> [amount |-> yocto]])
                  /\ pc' = "transfer_near_to_vault_call"
                  /\ UNCHANGED replies
    /\ UNCHANGED <<rt, signing_mode, NEAR_NETWORK, index_calls, warnings, tx>>

\* from the answer of near.send_money to the return of transfer_near_to_vault
transfer_near_to_vault_response(outcome) ==
    /\ pc = "transfer_near_to_vault_call"
    /\ LET explorer == get_explorer_url(NEAR_NETWORK)
       IN IF outcome.raised
          THEN /\ Finish(Reply("transfer_near_to_vault", "error", op.vault_id, outcome.error))
               /\ warnings' = Append(warnings, "transfer_near_to_vault error")
               /\ UNCHANGED tx
          ELSE /\ tx' = outcome
               /\ IF ~explorer.ok
                  THEN /\ Finish(Reply("transfer_near_to_vault", "error", op.vault_id, explorer.error))
                       /\ warnings' = Append(warnings, "transfer_near_to_vault error")
                  ELSE /\ Finish(Reply("transfer_near_to_vault", "success", op.vault_id, outcome.hash))
                       /\ UNCHANGED warnings
    /\ UNCHANGED <<rt, signing_mode, NEAR_NETWORK, op, calls, index_calls>>

(***************************************************************************)
(* tools/summary.py: vault_delegation_summary,                             *)
(* view_vault_status_with_validator                                        *)
(***************************************************************************)

\* the longest active_validators list a vault state holds
MaxActive == 2

\* the longest unstake_entries list a vault state holds
MaxUnstake == 1

\* ord(c) of the characters account ids are made of here
Ord(c) ==
    CASE c = "-" -> 45 [] c = "." -> 46 [] c = "0" -> 48 [] c = "1" -> 49
      [] c = "a" -> 97 [] c = "b" -> 98 [] c = "c" -> 99 [] OTHER -> 122

\* a < b on str: code point by code point, a proper prefix first
StrLess(a, b) ==
    \E k \in 1..(Len(b)) :
        /\ \A j \in 1..(k - 1) : j <= Len(a) /\ a[j] = b[j]
        /\ \/ k = Len(a) + 1
           \/ k <= Len(a) /\ Ord(a[k]) < Ord(b[k])

\* sorted(S) of a set of str
RECURSIVE sorted(_)
sorted(S) ==
    IF S = {} THEN <<>>
    ELSE LET least == CHOOSE x \in S : \A y \in S \ {x} : StrLess(x, y)
         IN <<least>> \o sorted(S \ {least})

\* dict(pairs): the keys of the pairs, each with the value of its last pair
dict(pairs) ==
    LET keys == {pairs[i][1] : i \in 1..Len(pairs)}
        last(k) == CHOOSE i \in 1..Len(pairs) :
                      /\ pairs[i][1] = k
                      /\ \A j \in (i + 1)..Len(pairs) : pairs[j][1] # k
    IN [k \in keys |-> pairs[last(k)][2]]

\* f"{d:.<places>f}": the decimal rounded half-to-even to places fractional
\* digits
FormatF(d, places) ==
    CASE d.kind = "nan" -> <<"N", "a", "N">>
      [] d.kind = "inf" -> (IF d.neg THEN <<"-">> ELSE <<>>)
                               \o <<"I", "n", "f", "i", "n", "i", "t", "y">>
      [] OTHER ->
          LET c == IF d.exp >= - places
                   THEN StripLeadingZeros(d.coef \o Zeros(d.exp + places))
                   ELSE RoundHalfEvenDrop(d.coef, - d.exp - places)
              padded == IF Len(c) < places + 1 THEN Zeros(places + 1 - Len(c)) \o c ELSE c
              text == [k \in 1..Len(padded) |-> DigitChar[padded[k] + 1]]
              n == Len(text)
          IN (IF d.neg THEN <<"-">> ELSE <<>>)
                 \o SubSeq(text, 1, n - places) \o <<".">> \o SubSeq(text, n - places + 1, n)

\* f"{d:.5f}": the decimal rounded half-to-even to five fractional digits
FormatF5(d) == FormatF(d, 5)

\* Decimal(balance) / YOCTO_FACTOR
near_balance(balance) == DecDiv(DecFromStr(balance), YOCTO_FACTOR)

\* f"{balance:.5f} NEAR"
near_text(balance) == FormatF5(balance) \o <<" ", "N", "E", "A", "R">>

SummaryValidators == { <<"a">>, <<"a", ".", "b">>, <<"b">> }

Epochs == {105}

CurrentEpochs == {108}

\* the [validator, record] pairs of unstake_entries
UnstakePairs ==
    { <<v, [amount |-> <<"2">> \o Rep("0", 24), epoch_height |-> e]>> :
        v \in SummaryValidators, e \in Epochs }

\* what near.view(vault, "get_vault_state", {}) gives vault_delegation_summary
SummaryStateOutcomes ==
    { [raised |-> TRUE, error |-> "rpc unreachable", result |-> None],
      [raised |-> FALSE, error |-> "", result |-> None] }
        \cup { [raised |-> FALSE, error |-> "",
                result |-> [current_epoch |-> ce, unstake_entries |-> ue,
                            active_validators |-> av]] :
               ce \in CurrentEpochs,
               ue \in SeqsUpTo(UnstakePairs, MaxUnstake),
               av \in SeqsUpTo(SummaryValidators, MaxActive) }

\* what near.view(validator, "get_account", ...) gives: an exception, a
\* response without result, or the account of the vault at the validator
AccountOutcomes ==
    { [raised |-> TRUE, error |-> "Contract not deployed", result |-> None],
      [raised |-> FALSE, error |-> "", result |-> None],
      [raised |-> FALSE, error |-> "",
       result |-> [staked_balance |-> <<"1">> \o Rep("0", 25),
                   unstaked_balance |-> <<"0">>, can_withdraw |-> TRUE]],
      [raised |-> FALSE, error |-> "",
       result |-> [staked_balance |-> <<"0">>,
                   unstaked_balance |-> <<"3", "5">> \o Rep("0", 23),
                   can_withdraw |-> FALSE]] }

\* A slip of the set below: the keys of unstake_entries are left out.
all_validators_active_only(state) ==
    LET active_validators == {state.active_validators[i] :
                                 i \in 1..Len(state.active_validators)}
    IN sorted(active_validators)

\* sorted(active_validators.union(unstake_validators))
all_validators(state) ==
    LET unstake_entries == dict(state.unstake_entries)
        active_validators == {state.active_validators[i] :
                                 i \in 1..Len(state.active_validators)}
        unstake_validators == DOMAIN unstake_entries
    IN sorted(active_validators \cup unstake_validators)

\* unstake_entries.get(validator, {}).get("epoch_height"): <<epoch_height>> of
\* the validator's record, None when there is no record
unstaked_at_of(unstake_entries, validator) ==
    IF validator \in DOMAIN unstake_entries
    THEN <<unstake_entries[validator].epoch_height>>
    ELSE None

\* the entry of a validator that answered: the balances as text, the
\* can_withdraw of the answer and, when it is false, the unlock fields
normal_entry(validator, staked, unstaked, can_withdraw, unstaked_at, current_epoch) ==
    IF IsError(staked) THEN [validator |-> validator, error |-> staked.kind]
    ELSE IF IsError(unstaked) THEN [validator |-> validator, error |-> unstaked.kind]
    ELSE IF can_withdraw
    THEN [validator |-> validator, staked_balance |-> near_text(staked),
          unstaked_balance |-> near_text(unstaked), can_withdraw |-> can_withdraw]
    ELSE [validator |-> validator, staked_balance |-> near_text(staked),
          unstaked_balance |-> near_text(unstaked), can_withdraw |-> can_withdraw,
          unstaked_at |-> unstaked_at, current_epoch |-> current_epoch]

\* A slip of the entry below: withdrawability is worked out from the epochs
\* of the vault state instead of being read from the validator.
summary_entry_withdrawable_from_epochs(state, validator, answer) ==
    IF answer.raised THEN [validator |-> validator, error |-> answer.error]
    ELSE IF answer.result = None
    THEN [validator |-> validator, error |-> "'NoneType' object is not subscriptable"]
    ELSE normal_entry(validator,
                      near_balance(answer.result.staked_balance),
                      near_balance(answer.result.unstaked_balance),
                      \/ validator \notin DOMAIN dict(state.unstake_entries)
                      \/ state.current_epoch
                            >= dict(state.unstake_entries)[validator].epoch_height + 4,
                      unstaked_at_of(dict(state.unstake_entries), validator),
                      state.current_epoch)

\* the body of the for-loop: the entry of one validator, an error entry when
\* anything in the try block raised
summary_entry(state, validator, answer) ==
    IF answer.raised THEN [validator |-> validator, error |-> answer.error]
    ELSE IF answer.result = None
    THEN [validator |-> validator, error |-> "'NoneType' object is not subscriptable"]
    ELSE normal_entry(validator,
                      near_balance(answer.result.staked_balance),
                      near_balance(answer.result.unstaked_balance),
                      answer.result.can_withdraw,
                      unstaked_at_of(dict(state.unstake_entries), validator),
                      state.current_epoch)

Line(label, value) == [label |-> label, value |-> value]

\* the lines the formatting loop appends for one item of the summary
item_lines(item) ==
    <<Line("Validator", item.validator)>>
        \o (IF "error" \in DOMAIN item
            THEN <<Line("Error", item.error)>>
            ELSE <<Line("Staked", item.staked_balance),
                   Line("Unstaked", item.unstaked_balance),
                   Line("Can Withdraw", IF item.can_withdraw THEN "Yes" ELSE "No")>>
                     \o (IF ~item.can_withdraw /\ "unstaked_at" \in DOMAIN item
                         THEN <<Line("Unlocks at", item.unstaked_at),
                                Line("Current Epoch", item.current_epoch)>>
                         ELSE <<>>))

\* the lines of the reply, header first
RECURSIVE summary_lines(_, _)
summary_lines(vault_id, summary) ==
    IF summary = <<>> THEN <<Line("Vault", vault_id)>>
    ELSE summary_lines(vault_id, SubSeq(summary, 1, Len(summary) - 1))
             \o item_lines(summary[Len(summary)])

\* A slip of the test below: a summary without any normal entry counts as
\* empty.
no_summary_without_normal_entry(summary) ==
    \A i \in 1..Len(summary) : "error" \in DOMAIN summary[i]

\* "if not summary"
no_summary(summary) == summary = <<>>

get_account_call(validator, vault_id) ==
    [fn |-> "view", contract_id |-> validator, method_name |-> "get_account",
     args |-> [account_id |-> vault_id]]

\* from the entry to the near.view of the vault state
vault_delegation_summary(vault_id) ==
    /\ pc = "idle"
    /\ op' = [tool |-> "vault_delegation_summary", vault_id |-> vault_id]
    /\ calls' = Append(calls, [fn |-> "view", contract_id |-> vault_id,
                               method_name |-> "get_vault_state", args |-> <<>>])
    /\ pc' = "vault_delegation_summary_view"
    /\ UNCHANGED <<rt, signing_mode, NEAR_NETWORK, replies, index_calls, warnings, tx>>

\* from the vault state to the first get_account view, or to the reply when
\* there is no validator to ask
vault_delegation_summary_state(response) ==
    /\ pc = "vault_delegation_summary_view"
    /\ LET vault_id == op.vault_id
           state == response.result
           validators == all_validators(state)
       IN IF response.raised \/ state = None
          THEN /\ Finish(Reply("vault_delegation_summary", "error", vault_id,
                               IF response.raised THEN response.error
                               ELSE "'NoneType' object is not subscriptable"))
               /\ warnings' = Append(warnings, "vault_delegation_summary error")
               /\ UNCHANGED <<calls, op>>
          ELSE /\ op' = op @@ [state |-> state, all_validators |-> validators,
                               results |-> <<>>, summary |-> <<>>]
               /\ UNCHANGED warnings
               /\ IF validators = <<>>
                  THEN /\ IF no_summary(<<>>)
                          THEN Finish(Reply("vault_delegation_summary", "no_delegation_data",
                                            vault_id, ""))
                          ELSE Finish(Reply("vault_delegation_summary", "summary",
                                            vault_id, summary_lines(vault_id, <<>>)))
                       /\ UNCHANGED calls
                  ELSE /\ calls' = Append(calls, get_account_call(validators[1], vault_id))
                       /\ pc' = "vault_delegation_summary_get_account"
                       /\ UNCHANGED replies
    /\ UNCHANGED <<rt, signing_mode, NEAR_NETWORK, index_calls, tx>>

\* the rest of one turn of the for-loop once the entry of the validator is
\* made: the entry joins the summary, then the next get_account view is
\* issued, or the reply is built after the last validator
summary_append(answer, entry, summary) ==
    /\ op' = [op EXCEPT !.summary = summary, !.results = Append(@, answer)]
    /\ warnings' = IF "error" \in DOMAIN entry
                   THEN Append(warnings, "Failed to fetch get_account")
                   ELSE warnings
    /\ IF Len(summary) < Len(op.all_validators)
       THEN /\ calls' = Append(calls, get_account_call(
                                  op.all_validators[Len(summary) + 1], op.vault_id))
            /\ UNCHANGED <<pc, replies>>
       ELSE /\ UNCHANGED calls
            /\ IF no_summary(summary)
               THEN Finish(Reply("vault_delegation_summary", "no_delegation_data",
                                 op.vault_id, ""))
               ELSE Finish(Reply("vault_delegation_summary", "summary", op.vault_id,
                                 summary_lines(op.vault_id, summary)))

\* an exception that leaves the for-loop: the outer handler replies
summary_abort(entry) ==
    /\ Finish(Reply("vault_delegation_summary", "error", op.vault_id, entry.error))
    /\ warnings' = Append(warnings, "vault_delegation_summary error")
    /\ UNCHANGED <<op, calls>>

\* A slip of the loop step below: a failed get_account is not caught inside
\* the loop and ends the tool with the failure reply.
summary_step_uncaught(answer, entry) ==
    IF "error" \in DOMAIN entry
    THEN summary_abort(entry)
    ELSE summary_append(answer, entry, Append(op.summary, entry))

\* try/except of the loop body: every entry, error entries included, is
\* appended and the loop goes on
summary_step(answer, entry) == summary_append(answer, entry, Append(op.summary, entry))

\* one turn of the for-loop, from the answer of get_account to the next
\* get_account view, or to the reply after the last validator
vault_delegation_summary_account(answer) ==
    /\ pc = "vault_delegation_summary_get_account"
    /\ summary_step(answer,
                    summary_entry(op.state, op.all_validators[Len(op.summary) + 1], answer))
    /\ UNCHANGED <<rt, signing_mode, NEAR_NETWORK, index_calls, tx>>

\* from the entry to the near.view of view_vault_status_with_validator
view_vault_status_with_validator(vault_id, validator_id) ==
    /\ pc = "idle"
    /\ op' = [tool |-> "view_vault_status_with_validator", vault_id |-> vault_id,
              validator_id |-> validator_id]
    /\ calls' = Append(calls, get_account_call(validator_id, vault_id))
    /\ pc' = "view_vault_status_with_validator_view"
    /\ UNCHANGED <<rt, signing_mode, NEAR_NETWORK, replies, index_calls, warnings, tx>>

\* from the answer of get_account to the return
view_vault_status_with_validator_response(response) ==
    /\ pc = "view_vault_status_with_validator_view"
    /\ LET vault_id == op.vault_id
           data == response.result
           staked == near_balance(data.staked_balance)
           unstaked == near_balance(data.unstaked_balance)
           can_withdraw == IF data.can_withdraw THEN "Yes" ELSE "No"
       IN /\ op' = op @@ [response |-> response]
          /\ IF response.raised
             THEN /\ Finish(Reply("view_vault_status_with_validator", "error", vault_id,
                                  response.error))
                  /\ warnings' = Append(warnings, "view_vault_status_with_validator error")
             ELSE IF data = None
             THEN /\ Finish(Reply("view_vault_status_with_validator", "no_data", vault_id, ""))
                  /\ UNCHANGED warnings
             ELSE IF IsError(staked) \/ IsError(unstaked)
             THEN /\ Finish(Reply("view_vault_status_with_validator", "error", vault_id,
                                  IF IsError(staked) THEN staked.kind ELSE unstaked.kind))
                  /\ warnings' = Append(warnings, "view_vault_status_with_validator error")
             ELSE /\ Finish(Reply("view_vault_status_with_validator", "status", vault_id,
                                  [staked |-> near_text(staked), unstaked |-> near_text(unstaked),
                                   can_withdraw |-> can_withdraw]))
                  /\ UNCHANGED warnings
    /\ UNCHANGED <<rt, signing_mode, NEAR_NETWORK, calls, index_calls, tx>>

(***************************************************************************)
(* tools/minting.py: mint_vault                                            *)
(***************************************************************************)

\* FACTORY_CONTRACTS[os.getenv("NEAR_NETWORK")]
FACTORY_CONTRACTS(network) ==
    IF network = mainnet THEN "sudostake.near" ELSE "nzaza.testnet"

\* VAULT_MINT_FEE_NEAR = Decimal("10")
VAULT_MINT_FEE_NEAR == Fin(FALSE, <<1, 0>>, 0)

\* the log lines of a mint transaction: EVENT_JSON lines with an event,
\* an EVENT_JSON line whose text is no JSON, and plain lines
MintLogLines ==
    { [event |-> "vault_minted", data |-> [vault |-> "vault-2.factory.testnet"]],
      [event |-> "vault_minted", data |-> [vault |-> "vault-3.factory.testnet"]],
      [event |-> "other", data |-> <<>>],
      [malformed |-> TRUE],
      [text |-> "plain log line"] }

\* what run_coroutine(near.call(factory, "mint_vault", ...)) gives
MintOutcomes ==
    { [raised |-> TRUE, error |-> "network dropped", status |-> <<>>, logs |-> <<>>,
       hash |-> ""] }
        \cup { [raised |-> FALSE, error |-> "", status |-> st, logs |-> lg, hash |-> "tx123"] :
               st \in {SuccessStatus, OtherFailureStatus} \cup
                      {PanicStatus(m) : m \in ExecutionErrors},
               lg \in SeqsUpTo(MintLogLines, MaxLogs) }

\* A slip of the scan below: the last vault_minted event is taken.
minted_vault_of_last_event(logs) ==
    LET hits == {i \in 1..Len(logs) :
                    \/ "malformed" \in DOMAIN logs[i]
                    \/ "event" \in DOMAIN logs[i] /\ logs[i].event = "vault_minted"}
        last == CHOOSE i \in hits : \A j \in hits : i >= j
    IN IF hits = {} THEN Ok(None)
       ELSE IF "malformed" \in DOMAIN logs[last] THEN Raise("JSONDecodeError")
       ELSE Ok(<<logs[last].data.vault>>)

\* the scan of the logs: <<vault>> of the first vault_minted event, None when
\* there is none; json.loads raises on an EVENT_JSON line that is no JSON
\* met before it
minted_vault(logs) ==
    LET hits == {i \in 1..Len(logs) :
                    \/ "malformed" \in DOMAIN logs[i]
                    \/ "event" \in DOMAIN logs[i] /\ logs[i].event = "vault_minted"}
        first == CHOOSE i \in hits : \A j \in hits : i <= j
    IN IF hits = {} THEN Ok(None)
       ELSE IF "malformed" \in DOMAIN logs[first] THEN Raise("JSONDecodeError")
       ELSE Ok(<<logs[first].data.vault>>)

\* A slip of the entry below: the signing guard is missing.
mint_vault_without_guard ==
    /\ pc = "idle"
    /\ op' = [tool |-> "mint_vault"]
    /\ calls' = Append(calls,
                       [fn |-> "call", contract_id |-> FACTORY_CONTRACTS(NEAR_NETWORK),
                        method_name |-> "mint_vault", args |-> <<>>,
                        deposit |-> IntToStr(ToMinorUnits(VAULT_MINT_FEE_NEAR,
                                                          YOCTO_FACTOR))])
    /\ pc' = "mint_vault_call"
    /\ UNCHANGED replies
    /\ UNCHANGED <<rt, signing_mode, NEAR_NETWORK, index_calls, warnings, tx>>

\* from the entry to the near.call of mint_vault
mint_vault ==
    /\ pc = "idle"
    /\ op' = [tool |-> "mint_vault"]
    /\ IF signing_mode # "headless"
       THEN /\ Finish(Reply("mint_vault", "signing_warning", "", ""))
            /\ UNCHANGED calls
       ELSE /\ calls' = Append(calls,
                               [fn |-> "call",
                                contract_id |-> FACTORY_CONTRACTS(NEAR_NETWORK),
                                method_name |-> "mint_vault", args |-> <<>>,
                                deposit |-> IntToStr(ToMinorUnits(VAULT_MINT_FEE_NEAR,
                                                                  YOCTO_FACTOR))])
            /\ pc' = "mint_vault_call"
            /\ UNCHANGED replies
    /\ UNCHANGED <<rt, signing_mode, NEAR_NETWORK, index_calls, warnings, tx>>

\* from the answer of near.call to the indexing request of mint_vault
mint_vault_response(outcome) ==
    /\ pc = "mint_vault_call"
    /\ IF outcome.raised
       THEN /\ Finish(Reply("mint_vault", "error", "", outcome.error))
            /\ warnings' = Append(warnings, "mint_vault error")
            /\ UNCHANGED <<tx, index_calls, op>>
       ELSE /\ tx' = outcome
            /\ IF Truthy(get_failure_message_from_tx_status(outcome.status))
               THEN /\ Finish(Reply("mint_vault", "contract_panic", "",
                                    get_failure_message_from_tx_status(outcome.status)[1]))
                    /\ UNCHANGED <<warnings, index_calls, op>>
               ELSE IF ~get_explorer_url(NEAR_NETWORK).ok
               THEN /\ Finish(Reply("mint_vault", "error", "",
                                    get_explorer_url(NEAR_NETWORK).error))
                    /\ warnings' = Append(warnings, "mint_vault error")
                    /\ UNCHANGED <<index_calls, op>>
               ELSE IF ~minted_vault(outcome.logs).ok
               THEN /\ Finish(Reply("mint_vault", "error", "",
                                    minted_vault(outcome.logs).error))
                    /\ warnings' = Append(warnings, "mint_vault error")
                    /\ UNCHANGED <<index_calls, op>>
               ELSE IF minted_vault(outcome.logs).value = None
               THEN /\ Finish(Reply("mint_vault", "error", "",
                                    "vault_minted log not found in transaction logs"))
                    /\ warnings' = Append(warnings, "mint_vault error")
                    /\ UNCHANGED <<index_calls, op>>
               ELSE /\ op' = op @@ [vault_acct |-> minted_vault(outcome.logs).value[1]]
                    /\ index_calls' = Append(index_calls,
                                             minted_vault(outcome.logs).value[1])
                    /\ pc' = "mint_vault_index"
                    /\ UNCHANGED <<replies, warnings>>
    /\ UNCHANGED <<rt, signing_mode, NEAR_NETWORK, calls>>

\* from the end of the indexing request to the return of mint_vault
mint_vault_indexed(index_raised) ==
    /\ pc = "mint_vault_index"
    /\ warnings' = IF index_raised THEN Append(warnings, "index_vault error") ELSE warnings
    /\ Finish(Reply("mint_vault", "success", op.vault_acct, tx.hash))
    /\ UNCHANGED <<rt, signing_mode, NEAR_NETWORK, op, calls, index_calls, tx>>

(***************************************************************************)
(* tools/withdrawal.py: claim_unstaked_balance                             *)
(***************************************************************************)

\* from the entry to the near.call of claim_unstaked_balance
claim_unstaked_balance(vault_id, validator) ==
    /\ pc = "idle"
    /\ op' = [tool |-> "claim_unstaked_balance", vault_id |-> vault_id,
              validator |-> validator]
    /\ IF signing_mode # "headless"
       THEN /\ Finish(Reply("claim_unstaked_balance", "signing_warning", vault_id, ""))
            /\ UNCHANGED calls
       ELSE /\ calls' = Append(calls, [fn |-> "call", contract_id |-> vault_id,
                                       method_name |-> "claim_unstaked",
                                       args |-> [validator |-> validator]])
            /\ pc' = "claim_unstaked_balance_call"
            /\ UNCHANGED replies
    /\ UNCHANGED <<rt, signing_mode, NEAR_NETWORK, index_calls, warnings, tx>>

\* from the answer of near.call to the return of claim_unstaked_balance
claim_unstaked_balance_response(outcome) ==
    /\ pc = "claim_unstaked_balance_call"
    /\ IF outcome.raised
       THEN /\ Finish(Reply("claim_unstaked_balance", "error", op.vault_id, outcome.error))
            /\ warnings' = Append(warnings, "claim_unstaked_balance error")
            /\ UNCHANGED tx
       ELSE /\ tx' = outcome
            /\ IF Truthy(get_failure_message_from_tx_status(outcome.status))
               THEN /\ Finish(Reply("claim_unstaked_balance", "contract_panic", op.vault_id,
                                    get_failure_message_from_tx_status(outcome.status)[1]))
                    /\ UNCHANGED warnings
               ELSE IF ~get_explorer_url(NEAR_NETWORK).ok
               THEN /\ Finish(Reply("claim_unstaked_balance", "error", op.vault_id,
                                    get_explorer_url(NEAR_NETWORK).error))
                    /\ warnings' = Append(warnings, "claim_unstaked_balance error")
               ELSE /\ Finish(Reply("claim_unstaked_balance", "success", op.vault_id,
                                    outcome.hash))
                    /\ UNCHANGED warnings
    /\ UNCHANGED <<rt, signing_mode, NEAR_NETWORK, op, calls, index_calls>>

(***************************************************************************)
(* tools/vault.py: vault_state                                             *)
(***************************************************************************)

\* helpers.USDC_FACTOR: USDC has six decimals
USDC_FACTOR == Fin(FALSE, <<1>>, 6)

\* the digits of a + b for two digit sequences of one length, carry in
RECURSIVE AddDigits(_, _, _)
AddDigits(a, b, carry) ==
    IF Len(a) = 0 THEN (IF carry = 0 THEN <<>> ELSE <<carry>>)
    ELSE LET n == Len(a)
             x == a[n] + b[n] + carry
         IN AddDigits(SubSeq(a, 1, n - 1), SubSeq(b, 1, n - 1), x \div 10) \o <<x % 10>>

\* the digits of a - b for two digit sequences of one length with a >= b
RECURSIVE SubDigits(_, _, _)
SubDigits(a, b, borrow) ==
    IF Len(a) = 0 THEN <<>>
    ELSE LET n == Len(a)
             x == a[n] - b[n] - borrow
         IN SubDigits(SubSeq(a, 1, n - 1), SubSeq(b, 1, n - 1), IF x < 0 THEN 1 ELSE 0)
                \o <<IF x < 0 THEN x + 10 ELSE x>>

\* a < b for two digit sequences of one length
DigitsLess(a, b) ==
    \E i \in 1..Len(a) : a[i] < b[i] /\ \A j \in 1..(i - 1) : a[j] = b[j]

PadLeft(s, n) == Zeros(n - Len(s)) \o s

\* the signed sum of two coefficients at one exponent
SignedSum(aneg, a, bneg, b, exp) ==
    IF aneg = bneg THEN Fin(aneg, StripLeadingZeros(AddDigits(a, b, 0)), exp)
    ELSE IF DigitsLess(a, b) THEN Fin(bneg, StripLeadingZeros(SubDigits(b, a, 0)), exp)
    ELSE IF a = b THEN Fin(FALSE, <<0>>, exp)
    ELSE Fin(aneg, StripLeadingZeros(SubDigits(a, b, 0)), exp)

\* the coefficient of d at the exponent exp <= d.exp, n digits wide
CoefAt(d, exp, n) == PadLeft(d.coef \o Zeros(d.exp - exp), n)

MinOf(x, y) == IF x <= y THEN x ELSE y

MaxOf(x, y) == IF x >= y THEN x ELSE y

\* the width two decimals need at the exponent exp
WidthAt(a, b, exp) == MaxOf(Len(a.coef) + a.exp - exp, Len(b.coef) + b.exp - exp)

\* a - b of two finite decimals at the exponent exp, n digits wide
SubAt(a, b, exp, n) ==
    DecFix(SignedSum(a.neg, CoefAt(a, exp, n), ~b.neg, CoefAt(b, exp, n), exp))

\* a - b of two finite decimals at the exponent exp
SubFinite(a, b, exp) == SubAt(a, b, exp, WidthAt(a, b, exp))

\* a - b of decimal: exact at the smaller exponent, then rounded to the
\* context precision
DecSub(a, b) ==
    CASE IsError(a) -> a
      [] IsError(b) -> b
      [] a.kind = "nan" \/ b.kind = "nan" -> NaN
      [] a.kind = "inf" /\ b.kind = "inf" -> (IF a.neg = b.neg THEN InvalidOperation ELSE a)
      [] a.kind = "inf" -> a
      [] b.kind = "inf" -> Inf(~b.neg)
      [] OTHER -> SubFinite(a, b, MinOf(a.exp, b.exp))

\* Decimal(amount) / USDC_FACTOR
usdc_balance(amount) == DecDiv(DecFromStr(amount), USDC_FACTOR)

\* f"{balance:.2f} USDC"
usdc_text(balance) == FormatF(balance, 2) \o <<" ", "U", "S", "D", "C">>

\* format_duration(seconds): the non-zero parts of days, hours and minutes,
\* "0m" when there is none
format_duration(seconds) ==
    LET days    == seconds \div 86400
        hours   == (seconds % 86400) \div 3600
        minutes == ((seconds % 86400) % 3600) \div 60
        parts   == (IF days # 0 THEN <<[n |-> days, unit |-> "d"]>> ELSE <<>>)
                       \o (IF hours # 0 THEN <<[n |-> hours, unit |-> "h"]>> ELSE <<>>)
                       \o (IF minutes # 0 THEN <<[n |-> minutes, unit |-> "m"]>> ELSE <<>>)
    IN IF parts = <<>> THEN <<[n |-> 0, unit |-> "m"]>> ELSE parts

\* the liquidation records a vault state may hold: nothing, 3 NEAR or 5 NEAR
\* liquidated
Liquidations ==
    { [liquidated |-> <<"0">>],
      [liquidated |-> <<"3">> \o Rep("0", 24)],
      [liquidated |-> <<"5">> \o Rep("0", 24)] }

\* what run_coroutine(near.view(vault, "get_vault_state", {})) gives
\* vault_state: an exception, a response without result, or the state
VaultViewOutcomes(network) ==
    { [raised |-> TRUE, error |-> "rpc unreachable", result |-> None],
      [raised |-> FALSE, error |-> "", result |-> None] }
        \cup { [raised |-> FALSE, error |-> "",
                result |-> [owner |-> "alice.testnet", index |-> 0, version |-> 1,
                            is_listed_for_takeover |-> FALSE,
                            liquidity_request |-> lr, accepted_offer |-> ao,
                            liquidation |-> lq]] :
               lr \in LiquidityRequests(network) \cup {None},
               ao \in AcceptedOffers \cup {None},
               lq \in Liquidations \cup {None} }

\* the reply of the except branch of vault_state
vault_state_error(vault_id, error) == Reply("vault_state", "error", vault_id, error)

\* the vault state summary; the timestamps of the later summaries are left
\* out of the details
state_summary(vault_id, state) ==
    Reply("vault_state", "vault_state", vault_id,
          [owner |-> state.owner, index |-> state.index, version |-> state.version,
           listed |-> state.is_listed_for_takeover,
           active_request |-> state.liquidity_request # None,
           accepted_offer |-> state.accepted_offer # None])

\* the liquidity request summary of the amounts, the reply of the except
\* branch when a Decimal(...) raised
request_reply(vault_id, req, usdc_amount, usdc_interest, near_collateral) ==
    IF IsError(usdc_amount) \/ IsError(usdc_interest) \/ IsError(near_collateral)
    THEN vault_state_error(vault_id, "InvalidOperation")
    ELSE Reply("vault_state", "liquidity_request_summary", vault_id,
               [token |-> req.token,
                amount |-> usdc_text(usdc_amount),
                interest |-> usdc_text(usdc_interest),
                collateral |-> near_text(near_collateral),
                duration |-> format_duration(req.duration)])

liquidity_request_summary(vault_id, req) ==
    request_reply(vault_id, req, usdc_balance(req.amount), usdc_balance(req.interest),
                  near_balance(req.collateral))

accepted_offer_summary(vault_id, accepted) ==
    Reply("vault_state", "accepted_offer_summary", vault_id, [lender |-> accepted.lender])

\* the liquidation summary of the amounts, the reply of the except branch
\* when a Decimal(...) raised
liquidation_reply(vault_id, total_debt, liquidated, remaining) ==
    IF IsError(total_debt) \/ IsError(liquidated) \/ IsError(remaining)
    THEN vault_state_error(vault_id, "InvalidOperation")
    ELSE Reply("vault_state", "liquidation_summary", vault_id,
               [total_debt |-> near_text(total_debt),
                liquidated |-> near_text(liquidated),
                outstanding_debt |-> near_text(remaining)])

\* remaining = total_debt - liquidated
liquidation_amounts(vault_id, total_debt, liquidated) ==
    liquidation_reply(vault_id, total_debt, liquidated, DecSub(total_debt, liquidated))

\* total_debt, liquidated and remaining, in NEAR
liquidation_summary(vault_id, req, liquidation) ==
    liquidation_amounts(vault_id, near_balance(req.collateral),
                        near_balance(liquidation.liquidated))

\* the reply of the liquidity request test
request_part(vault_id, state) ==
    IF state.liquidity_request # None
    THEN <<liquidity_request_summary(vault_id, state.liquidity_request)>>
    ELSE <<>>

\* the reply of the accepted offer test
offer_part(vault_id, state) ==
    IF state.accepted_offer # None
    THEN <<accepted_offer_summary(vault_id, state.accepted_offer)>>
    ELSE <<>>

\* the reply of the liquidation test
liquidation_part(vault_id, state) ==
    IF state.liquidation # None /\ state.liquidity_request # None
    THEN <<liquidation_summary(vault_id, state.liquidity_request, state.liquidation)>>
    ELSE <<>>

\* the replies up to the first one of the except branch, which ends the tool
UpToError(rs) ==
    LET hits == {i \in 1..Len(rs) : rs[i].class = "error"}
    IN IF hits = {} THEN rs
       ELSE SubSeq(rs, 1, CHOOSE i \in hits : \A j \in hits : i <= j)

\* the replies of vault_state for a state
state_replies(vault_id, state) ==
    UpToError(<<state_summary(vault_id, state)>> \o request_part(vault_id, state)
                  \o offer_part(vault_id, state) \o liquidation_part(vault_id, state))

\* from the entry to the near.view of vault_state
vault_state(vault_id) ==
    /\ pc = "idle"
    /\ op' = [tool |-> "vault_state", vault_id |-> vault_id]
    /\ calls' = Append(calls, [fn |-> "view", contract_id |-> vault_id,
                               method_name |-> "get_vault_state", args |-> <<>>])
    /\ pc' = "vault_state_view"
    /\ UNCHANGED <<rt, signing_mode, NEAR_NETWORK, replies, index_calls, warnings, tx>>

\* from the answer of near.view to the return of vault_state
vault_state_response(response) ==
    /\ pc = "vault_state_view"
    /\ op' = op @@ [state |-> response.result]
    /\ pc' = "done"
    /\ IF response.raised
       THEN /\ replies' = Append(replies, vault_state_error(op.vault_id, response.error))
            /\ warnings' = Append(warnings, "vault_state RPC error")
       ELSE IF response.result = None
       THEN /\ replies' = Append(replies, Reply("vault_state", "no_data", op.vault_id, ""))
            /\ UNCHANGED warnings
       ELSE /\ replies' = replies \o state_replies(op.vault_id, response.result)
            /\ warnings' = IF replies'[Len(replies')].class = "error"
                           THEN Append(warnings, "vault_state RPC error")
                           ELSE warnings
    /\ UNCHANGED <<rt, signing_mode, NEAR_NETWORK, calls, index_calls, tx>>

Next ==
    \/ Return
    \/ \E v \in VaultIds, a \in TokenAmounts, d \in Denoms, i \in Interests,
          t \in Durations, c \in Collaterals : request_liquidity(v, a, d, i, t, c)
    \/ \E o \in CallOutcomes : request_liquidity_response(o)
    \/ \E r \in IndexOutcomes : request_liquidity_indexed(r)
    \/ \E v \in VaultIds : accept_liquidity_request(v)
    \/ \E s \in VaultStateOutcomes(NEAR_NETWORK) : accept_liquidity_request_state(s)
    \/ \E o \in CallOutcomes : accept_liquidity_request_response(o)
    \/ \E r \in IndexOutcomes : accept_liquidity_request_indexed(r)
    \/ \E v \in VaultIds : repay_loan(v)
    \/ \E o \in CallOutcomes : repay_loan_response(o)
    \/ \E r \in IndexOutcomes : repay_loan_indexed(r)
    \/ \E v \in VaultIds, w \in Validators, a \in NearAmounts : delegate(v, w, a)
    \/ \E o \in CallOutcomes : delegate_response(o)
    \/ \E v \in VaultIds, w \in Validators, a \in NearAmounts : undelegate(v, w, a)
    \/ \E o \in CallOutcomes : undelegate_response(o)
    \/ \E v \in VaultIds, a \in NearAmounts, t \in ToAddresses : withdraw_balance(v, a, t)
    \/ \E o \in CallOutcomes : withdraw_balance_response(o)
    \/ \E v \in VaultIds, a \in NearAmounts : transfer_near_to_vault(v, a)
    \/ \E o \in CallOutcomes : transfer_near_to_vault_response(o)
    \/ \E v \in VaultIds : vault_delegation_summary(v)
    \/ \E s \in SummaryStateOutcomes : vault_delegation_summary_state(s)
    \/ \E a \in AccountOutcomes : vault_delegation_summary_account(a)
    \/ \E v \in VaultIds, w \in SummaryValidators : view_vault_status_with_validator(v, w)
    \/ \E a \in AccountOutcomes : view_vault_status_with_validator_response(a)
    \/ mint_vault
    \/ \E o \in MintOutcomes : mint_vault_response(o)
    \/ \E r \in IndexOutcomes : mint_vault_indexed(r)
    \/ \E v \in VaultIds, w \in Validators : claim_unstaked_balance(v, w)
    \/ \E o \in CallOutcomes : claim_unstaked_balance_response(o)
    \/ \E v \in VaultIds : vault_state(v)
    \/ \E s \in VaultViewOutcomes(NEAR_NETWORK) : vault_state_response(s)

Spec == Init /\ [][Next]_vars

(***************************************************************************)
(* The amount conversions on their own: an amount is scaled to minor units *)
(* as request_liquidity scales it and shown again as a display path shows  *)
(* it.                                                                     *)
(***************************************************************************)

IntParts == { <<"0">>, <<"1">>, <<"2">>, <<"5", "0", "0">>, <<"9", "9", "9", "9">> }

FracParts == { <<>>, <<"5">>, <<"2", "5">>, <<"0", "0", "0", "0", "0", "1">>,
               <<"4", "9", "9", "9", "9", "9">> }

\* human amounts with at most six fractional digits
RoundTripAmounts ==
    { IF f = <<>> THEN i ELSE i \o <<".">> \o f : i \in IntParts, f \in FracParts }

\* the display paths: the token amount and interest of
\* view_pending_liquidity_requests, accept_liquidity_request and
\* view_lender_positions, and the collateral of the two listings
DisplayPaths == {"token_amount", "pending_collateral", "lender_collateral"}

Decimals(path) == IF path = "token_amount" THEN 6 ELSE 24

RoundTripInit ==
    /\ signing_mode = "None"
    /\ NEAR_NETWORK = testnet
    /\ pc = "idle"
    /\ op = [tool |-> "none"]
    /\ replies = <<>>
    /\ calls = <<>>
    /\ index_calls = <<>>
    /\ warnings = <<>>
    /\ tx = None
    /\ \E d \in RoundTripAmounts, path \in DisplayPaths :
          rt = [stage |-> "human", d |-> d, path |-> path]

\* int((Decimal(d) * factor).quantize(Decimal("1"))) and str() of it
scale_to_minor_units ==
    /\ rt.stage = "human"
    /\ LET factor == IF rt.path = "token_amount" THEN PowTen(6) ELSE YOCTO_FACTOR
           minor == ToMinorUnits(DecFromStr(rt.d), factor)
       IN rt' = [stage |-> "minor", d |-> rt.d, path |-> rt.path, minor |-> IntToStr(minor)]
    /\ UNCHANGED <<signing_mode, NEAR_NETWORK, pc, op, replies, calls, index_calls,
                   warnings, tx>>

\* the amount as the display path shows it
display_amount ==
    /\ rt.stage = "minor"
    /\ LET shown == IF rt.path = "pending_collateral"
                    THEN ToHumanNormalized(rt.minor)
                    ELSE ToHumanQuantized(rt.minor, Decimals(rt.path))
       IN rt' = [stage |-> "shown", d |-> rt.d, path |-> rt.path, minor |-> rt.minor,
                 shown |-> shown]
    /\ UNCHANGED <<signing_mode, NEAR_NETWORK, pc, op, replies, calls, index_calls,
                   warnings, tx>>

RoundTripNext == scale_to_minor_units \/ display_amount

SpecRoundTrip == RoundTripInit /\ [][RoundTripNext]_vars

(***************************************************************************)
(* The token registry on its own: a token key is resolved by alias under a *)
(* value of NEAR_NETWORK, then a contract is resolved under the same value.*)
(***************************************************************************)

\* str.upper() of the letters of the aliases
UpperChar(c) ==
    CASE c = "u" -> "U" [] c = "s" -> "S" [] c = "d" -> "D" [] c = "c" -> "C"
      [] OTHER -> c

\* the upper/lower-case variants of a text
CaseVariants(a) ==
    { v \in [1..Len(a) -> {a[i] : i \in 1..Len(a)} \cup {UpperChar(a[i]) : i \in 1..Len(a)}] :
        \A i \in 1..Len(a) : v[i] \in {a[i], UpperChar(a[i])} }

\* leading and trailing whitespace
Pads == { <<>>, <<" ">>, <<"\t", "\n">> }

\* the values of os.environ.get("NEAR_NETWORK"): unset, or <<value>>
RegistryEnvs ==
    { None, <<testnet>>, <<mainnet>>, <<<<"T", "E", "S", "T", "N", "E", "T">>>>,
      <<<<"M", "a", "i", "n", "n", "e", "t">>>>,
      <<<<"u", "n", "k", "n", "o", "w", "n", "n", "e", "t">>>>,
      <<<<" ", "t", "e", "s", "t", "n", "e", "t">>>>, <<<<>>>> }

\* token keys that are no alias of any token
UnknownKeys ==
    { <<"s", "o", "l", "a", "n", "a">>, <<"u", "s", " ", "d", "c">>,
      <<"u", "s", "d", "c", "x">>, <<>>, <<" ">> }

\* contracts that are asked for besides the one the alias resolved to
LookupContracts ==
    { "usdc.tkn.primitives.testnet",
      "17208628f84f5d6ad33f0da3bbbeb27ffcb398eac501a31bd6ad2011e36133a1",
      "invalid.contract.testnet", "USDC.TKN.PRIMITIVES.TESTNET" }

\* os.getenv("NEAR_NETWORK", "testnet")
getenv_network(env) == IF env = None THEN testnet ELSE env[1]

RegistryInit ==
    /\ signing_mode = "None"
    /\ NEAR_NETWORK = testnet
    /\ pc = "idle"
    /\ op = [tool |-> "none"]
    /\ replies = <<>>
    /\ calls = <<>>
    /\ index_calls = <<>>
    /\ warnings = <<>>
    /\ tx = None
    /\ \E env \in RegistryEnvs :
          \/ \E k \in 1..Len(usdc_aliases), l \in Pads, r \in Pads :
                \E v \in CaseVariants(usdc_aliases[k]) :
                    rt = [stage |-> "key", env |-> env, alias |-> <<usdc_aliases[k]>>,
                          token_key |-> l \o v \o r]
          \/ \E u \in UnknownKeys :
                rt = [stage |-> "key", env |-> env, alias |-> None, token_key |-> u]

\* get_token_metadata(token_key) under the environment
resolve_by_alias ==
    /\ rt.stage = "key"
    /\ rt' = [stage |-> "metadata",
              metadata |-> get_token_metadata(getenv_network(rt.env), rt.token_key)] @@ rt
    /\ UNCHANGED <<signing_mode, NEAR_NETWORK, pc, op, replies, calls, index_calls,
                   warnings, tx>>

\* get_token_metadata_by_contract(contract_id) under the environment, for
\* the contract of the resolved metadata or another one
resolve_by_contract(contract_id) ==
    /\ rt.stage = "metadata"
    /\ rt' = [stage |-> "contract", contract_id |-> contract_id,
              by_contract |-> get_token_metadata_by_contract(getenv_network(rt.env),
                                                             contract_id)] @@ rt
    /\ UNCHANGED <<signing_mode, NEAR_NETWORK, pc, op, replies, calls, index_calls,
                   warnings, tx>>

RegistryNext ==
    \/ resolve_by_alias
    \/ /\ rt.stage = "metadata"
       /\ rt.metadata.ok
       /\ resolve_by_contract(rt.metadata.value.contract)
    \/ \E c \in LookupContracts : resolve_by_contract(c)

SpecRegistry == RegistryInit /\ [][RegistryNext]_vars

(***************************************************************************)
(* The duration conversion on its own: days are sent as seconds by         *)
(* request_liquidity and seconds are shown as days by the listings.        *)
(***************************************************************************)

\* the largest number of days tried
MaxDays == 60

\* seconds beyond a whole number of days
Remainders == {1, 100, 43200, 86399}

\* duration_secs = duration * 86400
to_duration_secs(duration) == duration * 86400

\* A slip of the conversion below: the days are rounded to the nearest.
to_duration_days_rounded(seconds) == (seconds + 43200) \div 86400

\* duration_days = lr["duration"] // 86400
to_duration_days(seconds) == seconds \div 86400

DurationInit ==
    /\ signing_mode = "None"
    /\ NEAR_NETWORK = testnet
    /\ pc = "idle"
    /\ op = [tool |-> "none"]
    /\ replies = <<>>
    /\ calls = <<>>
    /\ index_calls = <<>>
    /\ warnings = <<>>
    /\ tx = None
    /\ \/ \E d \in 0..MaxDays : rt = [stage |-> "days", days |-> d]
       \/ \E d \in 0..MaxDays, r \in Remainders :
             rt = [stage |-> "indexed", whole |-> d, duration |-> d * 86400 + r]

\* the duration request_liquidity sends for a number of days
send_duration ==
    /\ rt.stage = "days"
    /\ rt' = [stage |-> "sent", days |-> rt.days, duration |-> to_duration_secs(rt.days)]
    /\ UNCHANGED <<signing_mode, NEAR_NETWORK, pc, op, replies, calls, index_calls,
                   warnings, tx>>

\* the days a listing shows for the duration of a liquidity request
show_duration ==
    /\ rt.stage \in {"sent", "indexed"}
    /\ rt' = [stage |-> "shown", from |-> rt.stage, shown |-> to_duration_days(rt.duration)]
                 @@ rt
    /\ UNCHANGED <<signing_mode, NEAR_NETWORK, pc, op, replies, calls, index_calls,
                   warnings, tx>>

DurationNext == send_duration \/ show_duration

SpecDuration == DurationInit /\ [][DurationNext]_vars

(***************************************************************************)
(* helpers.py: the polling loop of init_vector_store, from the creation of *)
(* the vector store on.  Time is time.monotonic() in seconds, counted from *)
(* the moment the deadline is set.                                         *)
(***************************************************************************)

\* POLL_INTERVAL_S: seconds between status checks
POLL_INTERVAL_S == 2

\* MAX_BUILD_MINUTES: hard cap of the build
MAX_BUILD_MINUTES == 10

\* the most files uploaded
MaxFiles == 2

\* status.status of a vector store
StoreStatuses == {"in_progress", "completed", "expired", "failed", "cancelled"}

\* the seconds a retrieve may take
RetrieveSeconds == {0, 1}

\* what client.vector_stores.retrieve(vs.id) gives: an exception or a status
\* with the number of files completed
RetrieveOutcomes(n_files) ==
    { [raised |-> TRUE, status |-> "", completed |-> 0] }
        \cup { [raised |-> FALSE, status |-> s, completed |-> c] :
               s \in StoreStatuses, c \in 0..n_files }

VectorStoreInit ==
    /\ signing_mode = "None"
    /\ NEAR_NETWORK = testnet
    /\ pc = "idle"
    /\ op = [tool |-> "none"]
    /\ replies = <<>>
    /\ calls = <<>>
    /\ index_calls = <<>>
    /\ warnings = <<>>
    /\ tx = None
    /\ \E n \in 1..MaxFiles :
          rt = [stage |-> "while", now |-> 0, deadline |-> MAX_BUILD_MINUTES * 60,
                n_files |-> n, vs_id |-> "vs_1", status |-> "", completed |-> 0,
                outcome |-> "", _VECTOR_STORE_ID |-> None]

\* while time.monotonic() < deadline: ... else: raise TimeoutError
poll_deadline ==
    /\ rt.stage = "while"
    /\ rt' = IF rt.now < rt.deadline
             THEN [rt EXCEPT !.stage = "retrieve"]
             ELSE [rt EXCEPT !.stage = "done", !.outcome = "TimeoutError"]
    /\ UNCHANGED <<signing_mode, NEAR_NETWORK, pc, op, replies, calls, index_calls,
                   warnings, tx>>

\* from the answer of retrieve to time.sleep, to the break and the
\* assignment of _VECTOR_STORE_ID, or to the raise
poll_status(answer, seconds) ==
    /\ rt.stage = "retrieve"
    /\ rt' = IF answer.raised
             THEN [rt EXCEPT !.stage = "done", !.outcome = "raised by retrieve",
                             !.now = @ + seconds]
             ELSE IF answer.completed = rt.n_files /\ answer.status = "completed"
             THEN [rt EXCEPT !.stage = "done", !.outcome = "success",
                             !.status = answer.status, !.completed = answer.completed,
                             !.now = @ + seconds, !._VECTOR_STORE_ID = <<rt.vs_id>>]
             ELSE IF answer.status = "expired"
             THEN [rt EXCEPT !.stage = "done", !.outcome = "RuntimeError",
                             !.status = answer.status, !.completed = answer.completed,
                             !.now = @ + seconds]
             ELSE [rt EXCEPT !.stage = "sleep", !.status = answer.status,
                             !.completed = answer.completed, !.now = @ + seconds]
    /\ UNCHANGED <<signing_mode, NEAR_NETWORK, pc, op, replies, calls, index_calls,
                   warnings, tx>>

\* time.sleep(POLL_INTERVAL_S)
poll_sleep ==
    /\ rt.stage = "sleep"
    /\ rt' = [rt EXCEPT !.stage = "while", !.now = @ + POLL_INTERVAL_S]
    /\ UNCHANGED <<signing_mode, NEAR_NETWORK, pc, op, replies, calls, index_calls,
                   warnings, tx>>

VectorStoreNext ==
    \/ poll_deadline
    \/ \E a \in RetrieveOutcomes(rt.n_files), s \in RetrieveSeconds : poll_status(a, s)
    \/ poll_sleep

SpecVectorStore == VectorStoreInit /\ [][VectorStoreNext]_vars

(***************************************************************************)
(* accept_liquidity_request under interleaving: two invocations of the     *)
(* tool run against one vault, whose state the chain keeps, while the      *)
(* owner of the vault and another lender act on it.  rt holds the vault,   *)
(* where each invocation stands and what it read, and the transfers the    *)
(* chain executed.                                                         *)
(***************************************************************************)

Invocations == {1, 2}

\* the most actions of the owner and of the other lender in one behaviour
MaxOtherActions == 2

SharedVault == "vault-0.factory.testnet"

\* the terms the vault is opened with
OpenedRequest ==
    [token |-> TOKEN_REGISTRY(testnet)[1].contract,
     amount |-> <<"5", "0", "0">> \o Rep("0", 6),
     interest |-> <<"5", "0">> \o Rep("0", 6),
     collateral |-> <<"1", "0", "0">> \o Rep("0", 24),
     duration |-> 2592000, created_at |-> "1710000000000000000"]

\* the terms the owner opens the vault with again after a cancellation
ReopenedRequest ==
    [token |-> TOKEN_REGISTRY(testnet)[1].contract,
     amount |-> <<"9", "0", "0">> \o Rep("0", 6),
     interest |-> <<"1", "0">> \o Rep("0", 6),
     collateral |-> <<"1", "0", "0">> \o Rep("0", 24),
     duration |-> 86400, created_at |-> "1710002000000000000"]

\* the vault holds a request that no lender has accepted
IsOpen(vault) == vault.liquidity_request # None /\ vault.accepted_offer = None

\* the ft_transfer_call that funds the request of a vault
ft_transfer_call(vault_id, req) ==
    [fn |-> "call", contract_id |-> req.token, method_name |-> "ft_transfer_call",
     args |-> [receiver_id |-> vault_id, amount |-> req.amount,
               msg |-> json_dumps(accept_msg_payload(req))]]

InterleavingInit ==
    /\ signing_mode = "headless"
    /\ NEAR_NETWORK = testnet
    /\ pc = "idle"
    /\ op = [tool |-> "none"]
    /\ replies = <<>>
    /\ calls = <<>>
    /\ index_calls = <<>>
    /\ warnings = <<>>
    /\ tx = None
    /\ rt = [stage |-> "interleaving",
             vault |-> [liquidity_request |-> OpenedRequest, accepted_offer |-> None],
             at |-> [p \in Invocations |-> "idle"],
             state |-> [p \in Invocations |-> None],
             submitted |-> [p \in Invocations |-> None],
             executed |-> <<>>,
             others |-> 0]

\* invocation p, from the entry to the near.view of the vault state
accept_view(p) ==
    /\ rt.stage = "interleaving"
    /\ rt.at[p] = "idle"
    /\ rt' = [rt EXCEPT !.at[p] = "view"]
    /\ calls' = Append(calls, [fn |-> "view", contract_id |-> SharedVault,
                               method_name |-> "get_vault_state", args |-> <<>>])
    /\ UNCHANGED <<signing_mode, NEAR_NETWORK, pc, op, replies, index_calls, warnings, tx>>

\* invocation p, from the answer of near.view, which is the state of the
\* vault at that moment, to the near.call of ft_transfer_call or to the
\* reply that there is no request to accept
accept_state(p) ==
    /\ rt.stage = "interleaving"
    /\ rt.at[p] = "view"
    /\ IF no_active_request(rt.vault.liquidity_request, rt.vault.accepted_offer)
       THEN /\ rt' = [rt EXCEPT !.at[p] = "done", !.state[p] = rt.vault]
            /\ replies' = Append(replies, Reply("accept_liquidity_request",
                                                "no_active_request", SharedVault, ""))
            /\ UNCHANGED calls
       ELSE /\ rt' = [rt EXCEPT !.at[p] = "call", !.state[p] = rt.vault,
                                !.submitted[p] = ft_transfer_call(SharedVault,
                                                                  rt.vault.liquidity_request)]
            /\ calls' = Append(calls, ft_transfer_call(SharedVault,
                                                       rt.vault.liquidity_request))
            /\ UNCHANGED replies
    /\ UNCHANGED <<signing_mode, NEAR_NETWORK, pc, op, index_calls, warnings, tx>>

\* the vault after the contract has handled the transfer of a lender: the
\* offer is accepted when the vault is open and the message holds its terms,
\* the transfer is refunded otherwise
on_transfer(vault, lender, call) ==
    IF IsOpen(vault) /\ call = ft_transfer_call(call.args.receiver_id, vault.liquidity_request)
    THEN [vault EXCEPT !.accepted_offer = [lender |-> lender,
                                           accepted_at |-> "1710001000000000000"]]
    ELSE vault

\* the chain executes the ft_transfer_call of invocation p, and the tool
\* replies to the transaction it gets back
accept_response(p) ==
    /\ rt.stage = "interleaving"
    /\ rt.at[p] = "call"
    /\ rt' = [rt EXCEPT !.at[p] = "done",
                        !.vault = on_transfer(rt.vault, "agent.testnet", rt.submitted[p]),
                        !.executed = Append(@, [by |-> p, call |-> rt.submitted[p],
                                                vault |-> rt.vault])]
    /\ index_calls' = Append(index_calls, SharedVault)
    /\ replies' = Append(replies, Reply("accept_liquidity_request", "success", SharedVault,
                                        "tx123"))
    /\ UNCHANGED <<signing_mode, NEAR_NETWORK, pc, op, calls, warnings, tx>>

\* the owner cancels the open request
owner_cancels ==
    /\ rt.stage = "interleaving"
    /\ rt.others < MaxOtherActions
    /\ IsOpen(rt.vault)
    /\ rt' = [rt EXCEPT !.vault.liquidity_request = None, !.others = @ + 1]
    /\ UNCHANGED <<signing_mode, NEAR_NETWORK, pc, op, replies, calls, index_calls,
                   warnings, tx>>

\* the owner opens a request with other terms
owner_reopens ==
    /\ rt.stage = "interleaving"
    /\ rt.others < MaxOtherActions
    /\ rt.vault.liquidity_request = None
    /\ rt' = [rt EXCEPT !.vault.liquidity_request = ReopenedRequest, !.others = @ + 1]
    /\ UNCHANGED <<signing_mode, NEAR_NETWORK, pc, op, replies, calls, index_calls,
                   warnings, tx>>

\* another lender accepts the open request
other_lender_accepts ==
    /\ rt.stage = "interleaving"
    /\ rt.others < MaxOtherActions
    /\ IsOpen(rt.vault)
    /\ rt' = [rt EXCEPT !.vault.accepted_offer = [lender |-> "bob.testnet",
                                                  accepted_at |-> "1710001000000000000"],
                        !.others = @ + 1]
    /\ UNCHANGED <<signing_mode, NEAR_NETWORK, pc, op, replies, calls, index_calls,
                   warnings, tx>>

InterleavingNext ==
    \/ \E p \in Invocations : accept_view(p)
    \/ \E p \in Invocations : accept_state(p)
    \/ \E p \in Invocations : accept_response(p)
    \/ owner_cancels
    \/ owner_reopens
    \/ other_lender_accepts

SpecInterleaving == InterleavingInit /\ [][InterleavingNext]_vars

(***************************************************************************)
(* Properties                                                              *)
(***************************************************************************)

LiquidityTools == {"request_liquidity", "accept_liquidity_request", "repay_loan"}

NearAmountTools == {"delegate", "undelegate", "withdraw_balance", "transfer_near_to_vault"}

\* the status carries Failure -> ActionError -> kind -> FunctionCallError ->
\* ExecutionError with a message
CarriesExecutionError(status) ==
    /\ "Failure" \in DOMAIN status
    /\ "ActionError" \in DOMAIN status.Failure
    /\ "kind" \in DOMAIN status.Failure.ActionError
    /\ "FunctionCallError" \in DOMAIN status.Failure.ActionError.kind
    /\ "ExecutionError" \in DOMAIN status.Failure.ActionError.kind.FunctionCallError
    /\ status.Failure.ActionError.kind.FunctionCallError.ExecutionError # <<>>

MentionsEvent(logs, name) == \E i \in 1..Len(logs) : logs[i].event = name

SoftFailureEvents == {"liquidity_request_failed_insufficient_stake", "repay_loan_failed"}

SoftFailureEventOf(tool) ==
    IF tool = "repay_loan" THEN "repay_loan_failed"
    ELSE "liquidity_request_failed_insufficient_stake"

HasCall(method) == \E i \in 1..Len(calls) : calls[i].method_name = method

ReachedNetwork == \E i \in 1..Len(calls) : calls[i].fn \in {"call", "send_money"}

DigitText(digits) == [k \in 1..Len(digits) |-> DigitChar[digits[k] + 1]]

\* C1: in request_liquidity, accept_liquidity_request and repay_loan, a
\* returned status that carries an ExecutionError message gives the contract
\* panic reply, whatever the logs hold: it is the only reply (no soft-failure
\* reply, no success reply), it carries json.dumps of the message, and nothing
\* is indexed.
C1_PanicTakesPrecedence ==
    (op.tool \in LiquidityTools /\ tx # None /\ CarriesExecutionError(tx.status)) =>
        /\ pc = "done"
        /\ Len(replies) = 1
        /\ replies[1].class = "contract_panic"
        /\ replies[1].detail = json_dumps_str(
              tx.status.Failure.ActionError.kind.FunctionCallError.ExecutionError)
        /\ index_calls = <<>>

\* repay_loan got an execution error together with a repay_loan_failed log
C1_Witness ==
    /\ op.tool = "repay_loan"
    /\ tx # None
    /\ CarriesExecutionError(tx.status)
    /\ MentionsEvent(tx.logs, "repay_loan_failed")
    /\ replies # <<>>
    /\ replies[1].class = "contract_panic"

\* C2: request_liquidity and repay_loan call index_vault_to_firebase at most
\* once, for the vault of the call, and only once the contract call has
\* returned a status without execution error and logs without the soft-failure
\* event of the tool; with a contract panic or soft-failure reply nothing is
\* indexed at any point.
C2_IndexingOnlyAfterSuccess ==
    op.tool \in {"request_liquidity", "repay_loan"} =>
        /\ Len(index_calls) <= 1
        /\ index_calls # <<>> =>
              /\ index_calls = <<op.vault_id>>
              /\ tx # None
              /\ ~CarriesExecutionError(tx.status)
              /\ ~MentionsEvent(tx.logs, SoftFailureEventOf(op.tool))
        /\ (\E i \in 1..Len(replies) : replies[i].class \in {"contract_panic", "soft_failure"})
              => index_calls = <<>>

\* repay_loan saw repay_loan_failed in the logs of a successful status
C2_Witness ==
    /\ op.tool = "repay_loan"
    /\ pc = "done"
    /\ tx # None
    /\ "SuccessValue" \in DOMAIN tx.status
    /\ MentionsEvent(tx.logs, "repay_loan_failed")
    /\ replies[1].class = "soft_failure"
    /\ index_calls = <<>>

\* C3: when the transaction of request_liquidity, accept_liquidity_request or
\* repay_loan succeeded (no panic, no soft-failure event) and the indexing call
\* raised, the tool replies with the success reply (vault and transaction
\* hash) and with nothing else.
C3_IndexingFailureIsNotFatal ==
    ( /\ op.tool \in LiquidityTools
      /\ pc = "done"
      /\ tx # None
      /\ ~CarriesExecutionError(tx.status)
      /\ \A e \in SoftFailureEvents : ~MentionsEvent(tx.logs, e)
      /\ \E i \in 1..Len(warnings) : warnings[i] = "index_vault_to_firebase failed" )
    => replies = <<Reply(op.tool, "success", op.vault_id, tx.hash)>>

\* C4: when the vault state accept_liquidity_request read has no
\* liquidity_request or has an accepted_offer, the tool gives the one reply
\* "no active liquidity request" naming the vault and issues neither an
\* ft_transfer_call nor an indexing call; an ft_transfer_call is issued only
\* for a state with a request and without accepted offer.
C4_AcceptNeedsOpenRequest ==
    op.tool = "accept_liquidity_request" =>
        /\ ( /\ "state" \in DOMAIN op
             /\ (op.state.liquidity_request = None \/ op.state.accepted_offer # None) )
           => /\ replies = <<Reply("accept_liquidity_request", "no_active_request",
                                   op.vault_id, "")>>
              /\ ~HasCall("ft_transfer_call")
              /\ index_calls = <<>>
        /\ HasCall("ft_transfer_call")
           => /\ "state" \in DOMAIN op
              /\ op.state.liquidity_request # None
              /\ op.state.accepted_offer = None

\* the state read holds a request that was already accepted
C4_Witness ==
    /\ op.tool = "accept_liquidity_request"
    /\ pc = "done"
    /\ "state" \in DOMAIN op
    /\ op.state.liquidity_request # None
    /\ op.state.accepted_offer # None
    /\ replies[1].class = "no_active_request"

\* C5: the ft_transfer_call of accept_liquidity_request is issued once, on the
\* token contract of the liquidity_request read, with the vault as receiver,
\* the recorded amount, and a msg whose action is AcceptLiquidityRequest and
\* whose token, amount, interest, collateral and duration are those of the
\* request.
C5_AcceptEchoesRequest ==
    op.tool = "accept_liquidity_request" =>
        /\ Cardinality({i \in 1..Len(calls) : calls[i].fn = "call"}) <= 1
        /\ \A i \in 1..Len(calls) :
              calls[i].fn = "call" =>
                 LET req == op.state.liquidity_request
                     msg == calls[i].args.msg.json
                 IN /\ calls[i].method_name = "ft_transfer_call"
                    /\ calls[i].contract_id = req.token
                    /\ calls[i].args.receiver_id = op.vault_id
                    /\ calls[i].args.amount = req.amount
                    /\ DOMAIN calls[i].args = {"receiver_id", "amount", "msg"}
                    /\ msg.action = "AcceptLiquidityRequest"
                    /\ msg.token = req.token
                    /\ msg.amount = req.amount
                    /\ msg.interest = req.interest
                    /\ msg.collateral = req.collateral
                    /\ msg.duration = req.duration

\* the transfer was issued for a request whose interest differs from its amount
C5_Witness ==
    /\ op.tool = "accept_liquidity_request"
    /\ HasCall("ft_transfer_call")
    /\ op.state.liquidity_request.token = UnlistedToken(NEAR_NETWORK)
    /\ op.state.liquidity_request.amount # op.state.liquidity_request.interest

\* C6: accept_liquidity_request classifies the returned transfer as
\* request_liquidity does: an execution error gives the contract panic reply;
\* a status without execution error whose logs hold a known soft-failure event
\* gives a soft-failure reply, no indexing and no success reply; anything else
\* is taken as a success.
C6_AcceptClassifiesLikeRequest ==
    (op.tool = "accept_liquidity_request" /\ tx # None) =>
        IF CarriesExecutionError(tx.status)
        THEN replies # <<>> /\ replies[1].class = "contract_panic"
        ELSE IF \E e \in SoftFailureEvents : MentionsEvent(tx.logs, e)
        THEN /\ index_calls = <<>>
             /\ replies # <<>>
             /\ replies[1].class = "soft_failure"
        ELSE \A i \in 1..Len(replies) :
                replies[i].class \notin {"contract_panic", "soft_failure"}

\* C7: for a supported token alias and non-negative amount, interest, duration
\* and collateral, request_liquidity issues the one request_liquidity call on
\* the vault with token = the registry contract, amount and interest scaled by
\* 10^decimals, collateral scaled by 10^24, all as decimal text, and duration
\* in seconds.
C7_RequestLiquidityScaling ==
    ( /\ op.tool = "request_liquidity"
      /\ signing_mode = "headless"
      /\ get_token_metadata(NEAR_NETWORK, op.denom).ok
      /\ ~op.amount.neg /\ ~op.interest.neg /\ ~op.collateral.neg
      /\ op.duration >= 0 )
    => LET meta == get_token_metadata(NEAR_NETWORK, op.denom).value
           Scaled(i, n) == IF IsZeroSeq(i.digits) THEN <<"0">>
                           ELSE DigitText(i.digits \o Zeros(n))
       IN calls = << [fn |-> "call", contract_id |-> op.vault_id,
                      method_name |-> "request_liquidity",
                      args |-> [token |-> meta.contract,
                                amount |-> Scaled(op.amount, meta.decimals),
                                interest |-> Scaled(op.interest, meta.decimals),
                                collateral |-> Scaled(op.collateral, 24),
                                duration |-> op.duration * 86400]] >>

\* C8: an amount with at most N fractional digits, scaled to minor units and
\* shown again by a display path, is the amount itself.
C8_AmountRoundTrip ==
    rt.stage = "shown" =>
        /\ rt.shown.kind = "fin"
        /\ DecNormalize(rt.shown) = DecNormalize(DecFromStr(rt.d))

\* C9: when local validation fails in request_liquidity, delegate, undelegate,
\* withdraw_balance or transfer_near_to_vault (unsupported token, or an amount
\* that is no finite non-negative decimal), the tool gives exactly one failure
\* reply and issues no contract call, no send_money and no indexing call.
C9_ValidationErrorsStayLocal ==
    LET bad_amount == LET d == DecFromStr(op.amount)
                      IN ~(d.kind = "fin" /\ (~d.neg \/ IsZeroSeq(d.coef)))
        bad_request == \/ ~get_token_metadata(NEAR_NETWORK, op.denom).ok
                       \/ op.amount.neg \/ op.interest.neg \/ op.collateral.neg
    IN ( /\ signing_mode = "headless"
         /\ \/ op.tool \in NearAmountTools /\ bad_amount
            \/ op.tool = "request_liquidity" /\ bad_request )
       => /\ pc = "done"
          /\ Len(replies) = 1
          /\ replies[1].class \in {"error", "invalid_amount"}
          /\ ~ReachedNetwork
          /\ index_calls = <<>>

\* C10: the yocto amount delegate, undelegate, withdraw_balance and
\* transfer_near_to_vault send is the integer nearest to amount * 10^24, the
\* even one when the amount lies halfway between two integers.
C10_RoundsHalfToEven ==
    ( /\ op.tool \in NearAmountTools
      /\ ReachedNetwork
      /\ DecFromStr(op.amount).kind = "fin"
      /\ ~DecFromStr(op.amount).neg )
    => LET d == DecFromStr(op.amount)
           e == d.exp + 24
           nearest == IF e >= 0 THEN StripLeadingZeros(d.coef \o Zeros(e))
                      ELSE RoundHalfEvenDrop(d.coef, - e)
           sent == IF op.tool = "transfer_near_to_vault"
                   THEN IntToStr(calls[1].args.amount)
                   ELSE calls[1].args.amount
       IN sent = DigitText(nearest)

\* the get_account views issued so far, in order
GetAccountCalls == SelectSeq(calls, LAMBDA c : c.method_name = "get_account")

InSummary == op.tool = "vault_delegation_summary" /\ "summary" \in DOMAIN op

IsErrorEntry(e) == DOMAIN e = {"validator", "error"}

IsNormalEntry(e) ==
    /\ {"validator", "staked_balance", "unstaked_balance", "can_withdraw"} \subseteq DOMAIN e
    /\ "error" \notin DOMAIN e

UnstakeKeys(state) == {state.unstake_entries[i][1] : i \in 1..Len(state.unstake_entries)}

ActiveSet(state) == {state.active_validators[i] : i \in 1..Len(state.active_validators)}

\* C11: vault_delegation_summary asks every validator of the set in turn,
\* whatever the earlier answers were; the summary holds one entry per
\* validator asked, in order: an error entry with the validator id and the
\* failure reason when its get_account raised or returned no result, a normal
\* staked/unstaked/can_withdraw entry otherwise; at the end the entry count is
\* the size of the validator set and the reply is not a failure reply.
C11_PartialFailureIsolation ==
    InSummary =>
        /\ Len(op.summary) <= Len(op.all_validators)
        /\ Len(GetAccountCalls) =
              Len(op.summary) + (IF pc = "vault_delegation_summary_get_account" THEN 1 ELSE 0)
        /\ \A i \in 1..Len(op.summary) :
              LET entry == op.summary[i]
                  answer == op.results[i]
              IN /\ entry.validator = op.all_validators[i]
                 /\ IF answer.raised
                    THEN IsErrorEntry(entry) /\ entry.error = answer.error
                    ELSE IF answer.result = None
                    THEN IsErrorEntry(entry) /\ entry.error # ""
                    ELSE IsNormalEntry(entry)
        /\ pc = "done" =>
              /\ Len(op.summary) = Len(op.all_validators)
              /\ Len(replies) = 1
              /\ replies[1].class # "error"

\* of three validators the second failed and the other two were reported
C11_Witness ==
    /\ InSummary
    /\ pc = "done"
    /\ Len(op.summary) = 3
    /\ IsNormalEntry(op.summary[1])
    /\ IsErrorEntry(op.summary[2])
    /\ IsNormalEntry(op.summary[3])

\* C12: the validators vault_delegation_summary asks and reports are the
\* members of active_validators and the keys of unstake_entries, each once, in
\* ascending order of account id, whatever the order of the two lists.
C12_ValidatorSetAndOrder ==
    InSummary =>
        /\ {op.all_validators[i] : i \in 1..Len(op.all_validators)}
              = ActiveSet(op.state) \cup UnstakeKeys(op.state)
        /\ \A i \in 1..(Len(op.all_validators) - 1) :
              StrLess(op.all_validators[i], op.all_validators[i + 1])
        /\ \A i \in 1..Len(GetAccountCalls) :
              GetAccountCalls[i].contract_id = op.all_validators[i]
        /\ \A i \in 1..Len(op.summary) : op.summary[i].validator = op.all_validators[i]
        /\ (pc = "done" /\ op.all_validators # <<>>) =>
              SelectSeq(replies[1].detail, LAMBDA l : l.label = "Validator")
                 = [i \in 1..Len(op.all_validators) |-> Line("Validator", op.all_validators[i])]

\* active_validators came in descending order and a third validator is only
\* in unstake_entries
C12_Witness ==
    /\ InSummary
    /\ pc = "done"
    /\ Len(op.state.active_validators) = 2
    /\ StrLess(op.state.active_validators[2], op.state.active_validators[1])
    /\ UnstakeKeys(op.state) \ ActiveSet(op.state) # {}
    /\ Len(op.all_validators) = 3

\* C13: vault_delegation_summary replies "No delegation data found" exactly
\* when active_validators and unstake_entries are both empty; for a non-empty
\* validator set it replies with the summary, one entry per validator, also
\* when every get_account failed.
C13_EmptyMarkerOnlyForEmptySet ==
    (op.tool = "vault_delegation_summary" /\ pc = "done" /\ "state" \in DOMAIN op) =>
        LET empty == ActiveSet(op.state) \cup UnstakeKeys(op.state) = {}
        IN /\ Len(replies) = 1
           /\ replies[1].class = "no_delegation_data" <=> empty
           /\ ~empty =>
                 /\ replies[1].class = "summary"
                 /\ Len(SelectSeq(replies[1].detail,
                                  LAMBDA l : l.label \in {"Error", "Staked"}))
                       = Cardinality(ActiveSet(op.state) \cup UnstakeKeys(op.state))

\* two validators, both get_account views failed
C13_Witness ==
    /\ InSummary
    /\ pc = "done"
    /\ Len(op.summary) = 2
    /\ \A i \in 1..2 : IsErrorEntry(op.summary[i])
    /\ replies[1].class = "summary"

\* C14: the can_withdraw of every normal entry of vault_delegation_summary,
\* and the one view_vault_status_with_validator shows, is the can_withdraw
\* get_account returned for that validator, whatever unstake_entries and the
\* epochs say.
C14_CanWithdrawPassThrough ==
    /\ InSummary =>
          \A i \in 1..Len(op.summary) :
             IsNormalEntry(op.summary[i]) =>
                op.summary[i].can_withdraw = op.results[i].result.can_withdraw
    /\ (InSummary /\ pc = "done" /\ replies[1].class = "summary") =>
          SelectSeq(replies[1].detail, LAMBDA l : l.label = "Can Withdraw")
             = [i \in 1..Len(SelectSeq(op.results, LAMBDA a : a.result # None)) |->
                   Line("Can Withdraw",
                        IF SelectSeq(op.results, LAMBDA a : a.result # None)[i]
                              .result.can_withdraw
                        THEN "Yes" ELSE "No")]
    /\ ( /\ op.tool = "view_vault_status_with_validator"
         /\ pc = "done"
         /\ replies[1].class = "status" ) =>
          replies[1].detail.can_withdraw
             = (IF op.response.result.can_withdraw THEN "Yes" ELSE "No")

\* the validator says the funds can be withdrawn although the unstake record
\* of the vault is younger than four epochs, and another validator without
\* unstake record says they cannot
C14_Witness ==
    /\ InSummary
    /\ pc = "done"
    /\ \E i \in 1..Len(op.summary) :
          /\ IsNormalEntry(op.summary[i])
          /\ op.summary[i].can_withdraw
          /\ op.summary[i].validator \in UnstakeKeys(op.state)
          /\ op.state.current_epoch
                < dict(op.state.unstake_entries)[op.summary[i].validator].epoch_height + 4
    /\ \E i \in 1..Len(op.summary) :
          /\ IsNormalEntry(op.summary[i])
          /\ ~op.summary[i].can_withdraw
          /\ op.summary[i].validator \notin UnstakeKeys(op.state)

\* C15: a normal entry of vault_delegation_summary has the unlock fields
\* (unstaked_at = the epoch_height of the validator's unstake_entries record,
\* and current_epoch of the vault) exactly when can_withdraw is false and
\* unstake_entries has a record for the validator, and the reply shows the
\* unlock lines of exactly those entries.
C15_UnlockEnrichment ==
    InSummary =>
        /\ \A i \in 1..Len(op.summary) :
              LET entry == op.summary[i]
                  locked == /\ ~entry.can_withdraw
                            /\ entry.validator \in UnstakeKeys(op.state)
              IN IsNormalEntry(entry) =>
                    IF locked
                    THEN /\ entry.unstaked_at =
                              <<dict(op.state.unstake_entries)[entry.validator].epoch_height>>
                         /\ entry.current_epoch = op.state.current_epoch
                    ELSE /\ "unstaked_at" \notin DOMAIN entry
                         /\ "current_epoch" \notin DOMAIN entry
        /\ (pc = "done" /\ replies[1].class = "summary") =>
              Len(SelectSeq(replies[1].detail, LAMBDA l : l.label = "Unlocks at"))
                 = Cardinality({i \in 1..Len(op.summary) :
                                   /\ IsNormalEntry(op.summary[i])
                                   /\ ~op.summary[i].can_withdraw
                                   /\ op.summary[i].validator \in UnstakeKeys(op.state)})

MutatingCalls == SelectSeq(calls, LAMBDA c : c.fn \in {"call", "send_money"})

\* C16: one invocation of request_liquidity, accept_liquidity_request or
\* repay_loan issues at most one contract call, and none is issued once the
\* tool has replied, be the outcome a panic, a soft failure, an exception of
\* the call or a success.
C16_NoInternalRetry ==
    op.tool \in LiquidityTools =>
        /\ Len(MutatingCalls) <= 1
        /\ replies # <<>> => pc = "done"
        /\ pc = "done" => Len(replies) = 1

\* the repay_loan call raised: it was reported and issued once
C16_Witness ==
    /\ op.tool = "repay_loan"
    /\ pc = "done"
    /\ tx = None
    /\ replies[1].class = "error"
    /\ Len(MutatingCalls) = 1

ReplyClasses ==
    {"signing_warning", "invalid_amount", "error", "contract_panic", "soft_failure", "success"}

\* C17: request_liquidity, repay_loan, delegate and undelegate reply exactly
\* once, when they return, and the reply is of one class: signing warning,
\* invalid amount, contract panic, soft failure, success or error; repay_loan
\* answers a returned transaction with the panic reply when the status
\* carries an execution error, else with the soft-failure reply when the logs
\* hold repay_loan_failed, else with the success reply.
C17_ExactlyOneClassifiedReply ==
    op.tool \in {"request_liquidity", "repay_loan", "delegate", "undelegate"} =>
        /\ pc # "done" => replies = <<>>
        /\ pc = "done" => Len(replies) = 1 /\ replies[1].class \in ReplyClasses
        /\ (op.tool = "repay_loan" /\ pc = "done" /\ tx # None) =>
              replies[1].class =
                 (IF CarriesExecutionError(tx.status) THEN "contract_panic"
                  ELSE IF MentionsEvent(tx.logs, "repay_loan_failed") THEN "soft_failure"
                  ELSE "success")
        /\ (op.tool = "repay_loan" /\ pc = "done" /\ tx = None) =>
              replies[1].class = "error"

\* delegate got a contract panic and replied once
C17_Witness ==
    /\ op.tool = "delegate"
    /\ pc = "done"
    /\ tx # None
    /\ CarriesExecutionError(tx.status)
    /\ Len(replies) = 1
    /\ replies[1].class = "contract_panic"

\* part occurs in text
Contains(text, part) ==
    \E i \in 0..(Len(text) - Len(part)) : SubSeq(text, i + 1, i + Len(part)) = part

\* the name of a soft-failure event as text
EventText(name) ==
    IF name = "repay_loan_failed"
    THEN <<"r", "e", "p", "a", "y", "_", "l", "o", "a", "n", "_", "f", "a",
           "i", "l", "e", "d">>
    ELSE <<"l", "i", "q", "u", "i", "d", "i", "t", "y", "_", "r", "e", "q",
           "u", "e", "s", "t", "_", "f", "a", "i", "l", "e", "d", "_", "i",
           "n", "s", "u", "f", "f", "i", "c", "i", "e", "n", "t", "_", "s",
           "t", "a", "k", "e">>

\* C18: in request_liquidity, accept_liquidity_request and repay_loan the
\* contract panic reply holds the ExecutionError string of the status
\* unchanged, and the soft-failure reply holds the event the chain emitted.
C18_ChainFailuresVerbatim ==
    (op.tool \in LiquidityTools /\ pc = "done" /\ tx # None) =>
        /\ replies[1].class = "contract_panic" =>
              Contains(replies[1].detail,
                       tx.status.Failure.ActionError.kind.FunctionCallError.ExecutionError)
        /\ replies[1].class = "soft_failure" =>
              Contains(replies[1].detail, EventText(SoftFailureEventOf(op.tool)))

SigningTools ==
    {"mint_vault", "delegate", "undelegate", "withdraw_balance", "claim_unstaked_balance",
     "transfer_near_to_vault", "request_liquidity"}

\* C19: without headless signing, mint_vault, delegate, undelegate,
\* withdraw_balance, claim_unstaked_balance, transfer_near_to_vault and
\* request_liquidity reply once, with the signing warning, and issue no
\* contract call, no send_money and no indexing call, whatever the arguments.
C19_SigningGuard ==
    (signing_mode # "headless" /\ op.tool \in SigningTools) =>
        /\ pc = "done"
        /\ Len(replies) = 1
        /\ replies[1].class = "signing_warning"
        /\ calls = <<>>
        /\ index_calls = <<>>

\* mint_vault was asked for in a session without signing keys
C19_Witness ==
    /\ signing_mode # "headless"
    /\ op.tool = "mint_vault"
    /\ pc = "done"
    /\ replies[1].class = "signing_warning"
    /\ calls = <<>>

\* the yocto-NEAR digits of a record's amount text
YoctoDigits(text) == StripLeadingZeros(DigitsOf(text))

\* the yocto-NEAR liquidated so far, zero without a liquidation record
LiquidatedYocto(state) ==
    IF state.liquidation = None THEN <<0>> ELSE YoctoDigits(state.liquidation.liquidated)

\* liquidated <= collateral, both in yocto-NEAR
WithinCollateral(state) ==
    LET c == YoctoDigits(state.liquidity_request.collateral)
        l == LiquidatedYocto(state)
        n == MaxOf(Len(c), Len(l))
    IN ~DigitsLess(PadLeft(c, n), PadLeft(l, n))

\* collateral - liquidated, computed in yocto-NEAR and shown in NEAR
OutstandingDebtText(state) ==
    LET c == YoctoDigits(state.liquidity_request.collateral)
        l == LiquidatedYocto(state)
        n == MaxOf(Len(c), Len(l))
    IN near_text(SignedSum(FALSE, PadLeft(c, n), TRUE, PadLeft(l, n), -24))

FundedStateShown ==
    /\ op.tool = "vault_state"
    /\ pc = "done"
    /\ op.state # None
    /\ op.state.liquidity_request # None
    /\ op.state.accepted_offer # None

\* C20: for every state with a request and an accepted offer, vault_state
\* reports an outstanding debt equal to collateral - liquidated in yocto-NEAR,
\* liquidated being zero when there is no liquidation record (the
\* outstanding debt is then the full collateral), and the reported value is
\* not negative when liquidated <= collateral.
C20_LiquidationDisplay ==
    FundedStateShown =>
        \E i \in 1..Len(replies) :
            /\ replies[i].class = "liquidation_summary"
            /\ replies[i].detail.outstanding_debt = OutstandingDebtText(op.state)
            /\ WithinCollateral(op.state) => replies[i].detail.outstanding_debt[1] # "-"

\* the network the lookup runs under has a table
HasTable(env) == Lower(getenv_network(env)) \in RegisteredNetworks

\* the entries of the table of the network the lookup runs under
TableEntries(env) ==
    {TOKEN_REGISTRY(Lower(getenv_network(env)))[i] :
        i \in 1..Len(TOKEN_REGISTRY(Lower(getenv_network(env))))}

\* the entry of the table that registers the alias
EntryOfAlias(env, a) ==
    CHOOSE m \in TableEntries(env) : \E k \in 1..Len(m.aliases) : m.aliases[k] = a

\* C21: on a network with a table, every upper/lower-case variant of a
\* registered alias, with any leading or trailing whitespace, resolves to
\* the entry that registers the alias, and the lookup by that entry's
\* contract returns the same entry.
C21_AliasResolution ==
    (rt.stage \in {"metadata", "contract"} /\ HasTable(rt.env) /\ rt.alias # None) =>
        /\ rt.metadata.ok
        /\ rt.metadata.value = EntryOfAlias(rt.env, rt.alias[1])
        /\ (rt.stage = "contract" /\ rt.contract_id = rt.metadata.value.contract) =>
               /\ rt.by_contract.ok
               /\ rt.by_contract.value = rt.metadata.value

\* " UsDC\t\n" was resolved and its contract looked up
C21_Witness ==
    /\ rt.stage = "contract"
    /\ HasTable(rt.env)
    /\ rt.token_key = <<" ", "U", "s", "D", "C", "\t", "\n">>
    /\ rt.metadata.ok
    /\ rt.contract_id = rt.metadata.value.contract
    /\ rt.by_contract.ok

\* C22: both lookups fail with the unsupported-network error when the
\* network has no table, whatever the key or contract; on a network with a
\* table they fail with the unsupported-token error when no alias or no
\* contract matches; a result is always an entry of the table of the network
\* the lookup ran under.
C22_UnsupportedInputs ==
    /\ rt.stage \in {"metadata", "contract"} =>
          /\ ~HasTable(rt.env) =>
                 (~rt.metadata.ok /\ rt.metadata.error = "Unsupported network")
          /\ (HasTable(rt.env) /\ rt.alias = None) =>
                 (~rt.metadata.ok /\ rt.metadata.error = "Unsupported token")
          /\ rt.metadata.ok => rt.metadata.value \in TableEntries(rt.env)
    /\ rt.stage = "contract" =>
          /\ ~HasTable(rt.env) =>
                 (~rt.by_contract.ok /\ rt.by_contract.error = "Unsupported network")
          /\ (HasTable(rt.env) /\ \A m \in TableEntries(rt.env) : m.contract # rt.contract_id) =>
                 (~rt.by_contract.ok
                  /\ rt.by_contract.error = "No token metadata found for contract")
          /\ rt.by_contract.ok =>
                 (rt.by_contract.value \in TableEntries(rt.env)
                  /\ rt.by_contract.value.contract = rt.contract_id)

\* the mainnet contract was looked up on testnet after an unknown key
C22_Witness ==
    /\ rt.stage = "contract"
    /\ rt.env = <<testnet>>
    /\ rt.alias = None
    /\ ~rt.metadata.ok
    /\ rt.contract_id = "17208628f84f5d6ad33f0da3bbbeb27ffcb398eac501a31bd6ad2011e36133a1"
    /\ ~rt.by_contract.ok

\* C23: the duration sent for d whole days is d * 86400 seconds and is shown
\* again as d days; a duration that is no whole number of days is shown as
\* the whole days below it.
C23_DurationConversion ==
    /\ rt.stage = "sent" => rt.duration = rt.days * 86400
    /\ (rt.stage = "shown" /\ rt.from = "sent") => rt.shown = rt.days
    /\ (rt.stage = "shown" /\ rt.from = "indexed") =>
          /\ rt.shown = rt.whole
          /\ rt.shown * 86400 < rt.duration
          /\ rt.duration < (rt.shown + 1) * 86400

\* 30 days were sent as 2592000 seconds and shown as 30 days, or 86399
\* seconds beyond a day were shown as that day
C23_Witness ==
    /\ rt.stage = "shown"
    /\ \/ rt.from = "sent" /\ rt.days = 30 /\ rt.duration = 2592000 /\ rt.shown = 30
       \/ rt.from = "indexed" /\ rt.duration = 172799 /\ rt.shown = 1

\* C24: the polling loop of init_vector_store ends in success, RuntimeError or
\* TimeoutError and nothing else: success when a poll sees the status
\* completed with every uploaded file completed, RuntimeError when a poll
\* sees the store ended as expired, failed or cancelled, TimeoutError when
\* the deadline has passed; _VECTOR_STORE_ID is set on success only.
C24_PollingOutcomes ==
    /\ rt.stage = "done" => rt.outcome \in {"success", "RuntimeError", "TimeoutError"}
    /\ (rt.stage = "done" /\ rt.outcome = "success") <=>
          /\ rt.stage \in {"sleep", "done"}
          /\ rt.status = "completed"
          /\ rt.completed = rt.n_files
    /\ (rt.stage \in {"sleep", "done"} /\ rt.status \in {"expired", "failed", "cancelled"}) =>
          (rt.stage = "done" /\ rt.outcome = "RuntimeError")
    /\ (rt.stage = "done" /\ rt.outcome = "TimeoutError") => rt.now >= rt.deadline
    /\ rt._VECTOR_STORE_ID =
          IF rt.stage = "done" /\ rt.outcome = "success" THEN <<rt.vs_id>> ELSE None

\* the positions of the vault_minted events in the logs of the transaction
MintedEvents ==
    {i \in 1..Len(tx.logs) :
        "event" \in DOMAIN tx.logs[i] /\ tx.logs[i].event = "vault_minted"}

\* the data.vault of the first vault_minted event
FirstMintedVault ==
    tx.logs[CHOOSE i \in MintedEvents : \A j \in MintedEvents : i <= j].data.vault

\* mint_vault got a transaction back that carries no execution error
MintReturned ==
    /\ signing_mode = "headless"
    /\ op.tool = "mint_vault"
    /\ pc \in {"mint_vault_index", "done"}
    /\ tx # None
    /\ ~CarriesExecutionError(tx.status)

\* C25: after a mint_vault call without execution error, an indexing call and
\* a success reply are made only for the data.vault of the first vault_minted
\* event of the logs, the indexing once and before the reply; without such
\* an event the tool replies once, with "Vault minting failed", and indexes
\* nothing.
C25_MintEventRequirement ==
    MintReturned =>
        /\ index_calls # <<>> =>
              (MintedEvents # {} /\ index_calls = <<FirstMintedVault>>)
        /\ \A i \in 1..Len(replies) : replies[i].class = "success" =>
              /\ MintedEvents # {}
              /\ replies[i].vault = FirstMintedVault
              /\ index_calls = <<FirstMintedVault>>
              /\ Len(replies) = 1
        /\ (pc = "done" /\ MintedEvents = {}) =>
              /\ Len(replies) = 1
              /\ replies[1].class = "error"
              /\ index_calls = <<>>

\* a vault was minted and indexed from logs that hold two vault_minted events
C25_Witness ==
    /\ MintReturned
    /\ pc = "done"
    /\ Cardinality({tx.logs[i].data.vault : i \in MintedEvents}) = 2
    /\ replies[1].class = "success"
    /\ index_calls = <<FirstMintedVault>>

TransactionTools ==
    {"request_liquidity", "accept_liquidity_request", "repay_loan", "delegate", "undelegate",
     "withdraw_balance", "claim_unstaked_balance", "mint_vault"}

\* C26: when the status of the transaction of request_liquidity,
\* accept_liquidity_request, repay_loan, delegate, undelegate,
\* withdraw_balance, claim_unstaked_balance or mint_vault holds a Failure
\* entry, whatever its kind, no success reply is emitted and no indexing call
\* is made.
C26_NoFailureReportedAsSuccess ==
    (op.tool \in TransactionTools /\ tx # None /\ "Failure" \in DOMAIN tx.status) =>
        /\ \A i \in 1..Len(replies) : replies[i].class # "success"
        /\ index_calls = <<>>

\* C27: in request_liquidity, accept_liquidity_request and repay_loan, once
\* the contract call has returned a transaction without failure and without
\* soft-failure event, the tool replies once, with the success reply:
\* nothing done after the transaction turns the outcome into a failure
\* reply.
C27_SuccessIsReportedAsSuccess ==
    ( /\ op.tool \in LiquidityTools
      /\ pc = "done"
      /\ tx # None
      /\ "Failure" \notin DOMAIN tx.status
      /\ \A e \in SoftFailureEvents : ~MentionsEvent(tx.logs, e) ) =>
        /\ Len(replies) = 1
        /\ replies[1].class = "success"

\* C28: without headless signing no tool issues a mutating contract call or a
\* send_money, accept_liquidity_request and repay_loan included.
C28_GuardCoversEveryMutatingTool ==
    signing_mode # "headless" =>
        \A i \in 1..Len(calls) : calls[i].fn \notin {"call", "send_money"}

\* the invocations that have issued a funding transfer
Funders == {p \in Invocations : rt.submitted[p] # None}

\* C29: every funding transfer of accept_liquidity_request is executed
\* against a vault that is still open and carries the token, amount and
\* message of the request the vault holds at that moment, whatever the
\* owner, another lender or a second invocation did since the vault state
\* was read; two invocations on one open vault never both issue a funding
\* transfer.
C29_AcceptUnderInterleaving ==
    /\ \A i \in 1..Len(rt.executed) :
          /\ IsOpen(rt.executed[i].vault)
          /\ rt.executed[i].call =
                 ft_transfer_call(SharedVault, rt.executed[i].vault.liquidity_request)
    /\ Cardinality(Funders) <= 1


\* the decimal text of amount * 10^24 for a finite amount with at most 24
\* fractional digits
ExactYocto(d) == DigitText(StripLeadingZeros(d.coef \o Zeros(d.exp + 24)))

\* C30: for every finite non-negative NEAR amount with at most 24 fractional
\* digits, amounts of 10,000 NEAR or more included, delegate, undelegate,
\* withdraw_balance, transfer_near_to_vault and request_liquidity (collateral)
\* submit exactly amount * 10^24: the amount is never rejected and never
\* altered.
C30_YoctoConversionExact ==
    /\ ( /\ op.tool \in NearAmountTools
         /\ signing_mode = "headless"
         /\ DecFromStr(op.amount).kind = "fin"
         /\ ~DecFromStr(op.amount).neg
         /\ DecFromStr(op.amount).exp >= -24 )
       => /\ ReachedNetwork
          /\ ExactYocto(DecFromStr(op.amount)) =
                 IF op.tool = "transfer_near_to_vault"
                 THEN IntToStr(calls[1].args.amount)
                 ELSE calls[1].args.amount
    /\ ( /\ op.tool = "request_liquidity"
         /\ signing_mode = "headless"
         /\ get_token_metadata(NEAR_NETWORK, op.denom).ok
         /\ ~op.amount.neg /\ ~op.interest.neg /\ ~op.collateral.neg
         /\ op.duration >= 0 )
       => /\ ReachedNetwork
          /\ calls[1].args.collateral =
                 ExactYocto(Fin(FALSE, op.collateral.digits, 0))

====
